---- MODULE Spec2Model ----
(***************************************************************************)
(* Model of the lemonscript compiler front end (lemon::Compiler):          *)
(* recursive script loading with include expansion, line number            *)
(* translation, node building, global definitions and statement shaping.   *)
(*                                                                         *)
(* A source line is modelled as the token list the per-line parser yields  *)
(* for it; a token is a string.                                            *)
(***************************************************************************)
EXTENDS Integers, Sequences, FiniteSets, TLC

VARIABLES
    fs,              \* file system: file name -> sequence of lines
    pc,              \* position of the caller of the Compiler
    stack,           \* activation records of loadScriptInternal
    callee,          \* file name argument of the pending loadScriptInternal call
    outLines,        \* std::vector<std::string_view> outLines (with origin of each line)
    mIntervals,      \* LineNumberTranslation::mIntervals
    mErrors,         \* Compiler::mErrors
    mFunctionNodes,  \* Compiler::mFunctionNodes
    registered,      \* declarations registered in Module / GlobalsLookup
    result,          \* return value of the last loadScript
    loads,           \* number of loadScript calls made on this Compiler
    lastPush,        \* history: mIntervals before, and arguments of, the last push
    lastExc,         \* history: CompilerException caught by the last compileLines
    bld,             \* buildNodesFromCodeLines in progress (line by line)
    shp,             \* a block handed to processUndefinedNodesInBlock
    gdp              \* top-level lines handed to the global definitions pass

vars == << fs, pc, stack, callee, outLines, mIntervals, mErrors, mFunctionNodes,
           registered, result, loads, lastPush, lastExc, bld, shp, gdp >>

loaderVars == << fs, pc, stack, callee, outLines, mIntervals, mErrors, mFunctionNodes,
                 registered, result, loads, lastPush, lastExc >>

----------------------------------------------------------------------------
(* Bounds *)

MaxLoads == 2
MaxLinesA == 2
MaxLinesB == 1
MaxCycleLines == 1
MaxCompileLines == 4
MaxBuildLines == 5
MaxShapeNodes == 6
MaxControlNodes == 5
MaxScopeNodes == 4
MaxTopLevelItems == 4
MaxGlobalTokens == 5
MaxDefineTokens == 5
MaxParameters == 2
MaxStringLines == 3
MaxIncludeLines == 2
MaxFunctions == 3

(* Program constants *)

MaxInclusionDepth == 50

----------------------------------------------------------------------------
(* Generic helpers *)

SeqsUpTo(S, n) == UNION { [1..k -> S] : k \in 0..n }

Last(s) == s[Len(s)]

Front(s) == SubSeq(s, 1, Len(s) - 1)

----------------------------------------------------------------------------
(* uint32 arithmetic, as two 16-bit limbs << high, low >>                  *)

Limb == 2^16

ToU32(n) == << (n \div Limb) % Limb, n % Limb >>

U32Add(a, b) ==
    LET lo == a[2] + b[2]
        hi == a[1] + b[1] + (lo \div Limb)
    IN  << hi % Limb, lo % Limb >>

U32Sub(a, b) ==
    LET borrow == IF a[2] < b[2] THEN 1 ELSE 0
        lo == a[2] - b[2] + borrow * Limb
        hi == a[1] - b[1] - borrow
    IN  << hi % Limb, lo >>

U32Less(a, b) == a[1] < b[1] \/ (a[1] = b[1] /\ a[2] < b[2])

----------------------------------------------------------------------------
(* LineNumberTranslation *)

\* Interval { mStartLineNumber, mFilename, mLineOffsetInFile }
Interval(start, filename, offset) ==
    [ mStartLineNumber |-> start, mFilename |-> filename, mLineOffsetInFile |-> offset ]

\* the interval index the while loop of translateLineNumber stops at
RECURSIVE IntervalIndex(_, _, _)
IntervalIndex(intervals, lineNumber, index) ==
    IF index + 1 <= Len(intervals)
         /\ U32Less(ToU32(intervals[index + 1].mStartLineNumber), lineNumber)
    THEN IntervalIndex(intervals, lineNumber, index + 1)
    ELSE index

\* translateLineNumber(lineNumber) on a non-empty interval list; lineNumber is a uint32
translateLineNumber(intervals, lineNumber) ==
    LET interval == intervals[IntervalIndex(intervals, lineNumber, 1)]
        originalLineNumber ==
            U32Add(U32Sub(lineNumber, ToU32(interval.mStartLineNumber)),
                   ToU32(interval.mLineOffsetInFile))
    IN  [ first |-> originalLineNumber, second |-> interval.mFilename ]

pushAlwaysAppends(intervals, currentLineNumber, filename, lineOffsetInFile) ==
    Append(intervals, Interval(currentLineNumber, filename, lineOffsetInFile))

\* push(currentLineNumber, filename, lineOffsetInFile)
push(intervals, currentLineNumber, filename, lineOffsetInFile) ==
    LET updateLastEntry ==
            intervals /= << >> /\ Last(intervals).mStartLineNumber = currentLineNumber
        new == Interval(currentLineNumber, filename, lineOffsetInFile)
    IN  IF updateLastEntry
        THEN [ intervals EXCEPT ![Len(intervals)] = new ]
        ELSE Append(intervals, new)

PushRecord(intervals, currentLineNumber, filename, lineOffsetInFile) ==
    << [ before |-> intervals, line |-> currentLineNumber,
         filename |-> filename, offset |-> lineOffsetInFile ] >>

----------------------------------------------------------------------------
(* Tokens (ParserToken::Type / Token::Type) *)

Keywords == { "{", "}", "function", "global", "define", "return", "call", "jump",
              "break", "continue", "if", "else", "while", "for" }

VarTypes == { "int", "void" }

Operators == { "(", ")", ",", "=", ";", ":", "+" }

StringLiterals == { "'s'", "'t'" }

PragmaTokens == { "//#p", "//#q" }

ConstantTokens == { "0", "1" }

LabelTokens == { "@l" }

\* value of the constant token a string literal is replaced by: the string's hash
StringHash(str) == IF str = "'s'" THEN "hash:s" ELSE "hash:t"

TokenType(t) ==
    CASE t \in Keywords       -> "KEYWORD"
      [] t \in VarTypes       -> "VARTYPE"
      [] t \in Operators      -> "OPERATOR"
      [] t \in StringLiterals -> "STRING_LITERAL"
      [] t \in PragmaTokens   -> "PRAGMA"
      [] t \in ConstantTokens -> "CONSTANT"
      [] t \in { StringHash(str) : str \in StringLiterals } -> "CONSTANT"
      [] t \in LabelTokens    -> "LABEL"
      [] t = "<statement>"    -> "STATEMENT"
      [] OTHER                -> "IDENTIFIER"

\* isOperator(token, op)
isOperator(token, op) == TokenType(token) = "OPERATOR" /\ token = op

----------------------------------------------------------------------------
(* Nodes.  Every node is a record of the same shape; fields a node type    *)
(* does not have stay empty.  A pointer to a child node (mContent,         *)
(* mContentIf, mContentElse) is a sequence of length 0 (null) or 1.        *)

Node(type, lineNumber) ==
    [ type |-> type, line |-> lineNumber, tokens |-> << >>, nodes |-> << >>,
      content |-> << >>, contentIf |-> << >>, contentElse |-> << >>,
      function |-> << >>, pragma |-> "" ]

\* CompilerException(message, lineNumber)
Exception(msg, lineNumber) == << [ msg |-> msg, line |-> lineNumber ] >>

\* the block a path of child indices leads to, starting from the root block
RECURSIVE AppendAt(_, _, _)
AppendAt(block, path, node) ==
    IF path = << >>
    THEN [ block EXCEPT !.nodes = Append(@, node) ]
    ELSE [ block EXCEPT !.nodes[Head(path)] = AppendAt(@, Tail(path), node) ]

RECURSIVE BlockAt(_, _)
BlockAt(block, path) ==
    IF path = << >> THEN block ELSE BlockAt(block.nodes[Head(path)], Tail(path))

addNodeToRoot(root, blockStack, node) == AppendAt(root, << >>, node)

\* addNode<T>(blockStack, lineNumber): the node goes to the back of blockStack.back()
addNode(root, blockStack, node) == AppendAt(root, Last(blockStack), node)

----------------------------------------------------------------------------
(* buildNodesFromCodeLines.  The state of the loop is a record: the root   *)
(* block, the block stack (each entry the path of its block from the       *)
(* root), the line counter, the module's string table and the exception    *)
(* thrown, if any.                                                         *)

BuildStart ==
    [ root |-> Node("BLOCK", 0), blockStack |-> << << >> >>, lineNumber |-> 0,
      strings |-> {}, exc |-> << >> ]

RECURSIVE TranslateTokensKeepsStrings(_)
TranslateTokensKeepsStrings(parserTokens) ==
    IF parserTokens = << >> THEN << >>
    ELSE LET t == Head(parserTokens)
             rest == TranslateTokensKeepsStrings(Tail(parserTokens))
         IN  CASE TokenType(t) = "PRAGMA" -> rest
               [] OTHER                   -> << t >> \o rest

\* translation of the parser tokens of a line into the token list of an Undefined node
RECURSIVE TranslateTokens(_)
TranslateTokens(parserTokens) ==
    IF parserTokens = << >> THEN << >>
    ELSE LET t == Head(parserTokens)
             rest == TranslateTokens(Tail(parserTokens))
         IN  CASE TokenType(t) = "PRAGMA"         -> rest
               [] TokenType(t) = "STRING_LITERAL" -> << StringHash(t) >> \o rest
               [] OTHER                           -> << t >> \o rest

StringsOf(parserTokens) ==
    { parserTokens[i] : i \in { j \in 1..Len(parserTokens) :
                                  TokenType(parserTokens[j]) = "STRING_LITERAL" } }

\* Module::addStringLiteral(str) for each of the strings: the table is keyed by the
\* hash of the string, a string whose hash it holds already adds nothing
addStringLiterals(strings, new) ==
    strings \cup { str \in new : \A held \in strings : StringHash(held) /= StringHash(str) }

\* One iteration of the loop over the lines.  stringTableFull: the module cannot
\* store another string literal (addStringLiteral returns nullptr).
BuildLine(b, parserTokens, stringTableFull) ==
    LET lineNumber == b.lineNumber + 1
        b1 == [ b EXCEPT !.lineNumber = lineNumber ]
        newStrings == IF stringTableFull THEN b.strings
                      ELSE addStringLiterals(b.strings, StringsOf(parserTokens))
        b2 == [ b1 EXCEPT !.strings = newStrings ]
        first == parserTokens[1]
    IN  IF parserTokens = << >> THEN b1
        ELSE IF first = "{" THEN
            IF Len(parserTokens) /= 1
            THEN [ b2 EXCEPT !.exc = Exception("Curly brace must use its own line", lineNumber) ]
            ELSE LET parent == BlockAt(b2.root, Last(b2.blockStack))
                 IN  [ b2 EXCEPT
                         !.root = addNode(b2.root, b2.blockStack, Node("BLOCK", lineNumber)),
                         !.blockStack = Append(@, Append(Last(b2.blockStack),
                                                         Len(parent.nodes) + 1)) ]
        ELSE IF first = "}" THEN
            IF Len(parserTokens) /= 1
            THEN [ b2 EXCEPT !.exc = Exception("Curly brace must use its own line", lineNumber) ]
            ELSE IF Len(b2.blockStack) = 1
            THEN [ b2 EXCEPT !.blockStack = << >>,
                             !.exc = Exception("Closed too many blocks", lineNumber) ]
            ELSE [ b2 EXCEPT !.blockStack = Front(@) ]
        ELSE IF TokenType(first) = "PRAGMA" THEN
            [ b2 EXCEPT !.root = addNode(b2.root, b2.blockStack,
                                         [ Node("PRAGMA", lineNumber) EXCEPT !.pragma = first ]) ]
        ELSE
            IF stringTableFull /\ (StringsOf(parserTokens) \ b.strings) /= {}
            THEN [ b2 EXCEPT
                     !.exc = Exception("Failed to create new string literal", 0) ]
            ELSE [ b2 EXCEPT
                     !.root = addNode(b2.root, b2.blockStack,
                                      [ Node("UNDEFINED", lineNumber) EXCEPT
                                          !.tokens = TranslateTokens(parserTokens) ]) ]

BuildEndNoCheck(b) == b

\* the check after the loop
BuildEnd(b) ==
    IF Len(b.blockStack) /= 1
    THEN [ b EXCEPT !.exc = Exception("More blocks opened than closed", b.lineNumber) ]
    ELSE b

\* the whole of buildNodesFromCodeLines
RECURSIVE BuildLoop(_, _, _)
BuildLoop(b, lines, stringTableFull) ==
    IF b.exc /= << >> THEN b
    ELSE IF lines = << >> THEN BuildEnd(b)
    ELSE BuildLoop(BuildLine(b, Head(lines), stringTableFull), Tail(lines), stringTableFull)

buildNodesFromCodeLines(lines, stringTableFull) == BuildLoop(BuildStart, lines, stringTableFull)

----------------------------------------------------------------------------
(* processFunctionHeader.  Token indices are those of the code (0-based):  *)
(* Tok(tokens, i) is tokens[i].                                            *)

Tok(tokens, i) == tokens[i + 1]

\* the parameter loop; yields the parameters or the exception message
RECURSIVE ParseParameters(_, _, _)
ParseParameters(tokens, offset, parameters) ==
    IF ~(offset + 2 < Len(tokens))
    THEN [ error |-> "Expected function parameter definition", parameters |-> << >> ]
    ELSE IF TokenType(Tok(tokens, offset)) /= "VARTYPE"
    THEN [ error |-> "Expected type in function parameter definition", parameters |-> << >> ]
    ELSE IF TokenType(Tok(tokens, offset + 1)) /= "IDENTIFIER"
    THEN [ error |-> "Expected identifier in function parameter definition",
           parameters |-> << >> ]
    ELSE IF TokenType(Tok(tokens, offset + 2)) /= "OPERATOR"
    THEN [ error |-> "Expected comma or closing parentheses after function parameter definition",
           parameters |-> << >> ]
    ELSE LET parameter == [ mType |-> Tok(tokens, offset),
                            mIdentifier |-> Tok(tokens, offset + 1) ]
             op == Tok(tokens, offset + 2)
         IN  IF op = ")"
             THEN [ error |-> "", parameters |-> Append(parameters, parameter) ]
             ELSE IF op /= ","
             THEN [ error |-> "Expected comma or closing parentheses after function parameter definition",
                    parameters |-> << >> ]
             ELSE ParseParameters(tokens, offset + 3, Append(parameters, parameter))

\* the parsing part of processFunctionHeader, up to the creation of the function
ParseFunctionHeader(tokens) ==
    LET fail(msg) == [ error |-> msg, returnType |-> "", name |-> "", parameters |-> << >> ]
    IN  IF ~(1 < Len(tokens) /\ TokenType(Tok(tokens, 1)) = "VARTYPE")
        THEN fail("Expected a typename after 'function' keyword")
        ELSE IF ~(2 < Len(tokens) /\ TokenType(Tok(tokens, 2)) = "IDENTIFIER")
        THEN fail("Expected an identifier in function definition")
        ELSE IF ~(3 < Len(tokens) /\ isOperator(Tok(tokens, 3), "("))
        THEN fail("Expected opening parentheses in function definition")
        ELSE IF ~(4 < Len(tokens))
        THEN fail("Unexpected end of function definition")
        ELSE IF TokenType(Tok(tokens, 4)) = "OPERATOR"
        THEN IF Tok(tokens, 4) /= ")"
             THEN fail("Expected closing parentheses or parameter definition")
             ELSE [ error |-> "", returnType |-> Tok(tokens, 1), name |-> Tok(tokens, 2),
                    parameters |-> << >> ]
        ELSE LET p == ParseParameters(tokens, 4, << >>)
             IN  IF p.error /= "" THEN fail(p.error)
                 ELSE [ error |-> "", returnType |-> Tok(tokens, 1), name |-> Tok(tokens, 2),
                        parameters |-> p.parameters ]

\* the loop that creates one local variable per parameter; stops at a name used twice
RECURSIVE AddParameterLocals(_, _)
AddParameterLocals(parameters, locals) ==
    IF parameters = << >> THEN [ error |-> "", locals |-> locals ]
    ELSE LET parameter == Head(parameters)
         IN  IF \E i \in 1..Len(locals) : locals[i].mIdentifier = parameter.mIdentifier
             THEN [ error |-> "Parameter name already used", locals |-> locals ]
             ELSE AddParameterLocals(Tail(parameters), Append(locals, parameter))

\* the function as Module::addFunction and the lines after it leave it: the local
\* variables up to the first name used twice, the source metadata only when the
\* loop over the parameters went through
CreatedFunction(h, l, pair, lineNumber, load) ==
    [ name |-> h.name, returnType |-> h.returnType,
      parameters |-> h.parameters, locals |-> l.locals, pragmas |-> << >>,
      mSourceFilename |-> IF l.error = "" THEN pair.second ELSE "",
      mSourceBaseLineOffset |-> IF l.error = ""
                                THEN U32Sub(ToU32(lineNumber), pair.first)
                                ELSE ToU32(0),
      load |-> load ]

\* the part of processFunctionHeader after the parameter loop: the function is
\* registered, then its local variables are created
RegisterFunction(module, intervals, load, lineNumber, h, l) ==
    [ module |-> [ module EXCEPT !.functions =
                     Append(@, CreatedFunction(h, l,
                                               translateLineNumber(intervals, ToU32(lineNumber)),
                                               lineNumber, load)) ],
      exc |-> IF l.error /= "" THEN Exception(l.error, lineNumber) ELSE << >> ]

ParsedFunctionHeader(module, intervals, load, lineNumber, h) ==
    IF h.error /= ""
    THEN [ module |-> module, exc |-> Exception(h.error, lineNumber) ]
    ELSE RegisterFunction(module, intervals, load, lineNumber, h,
                          AddParameterLocals(h.parameters, << >>))

\* processFunctionHeader(node, tokens): module is the registry, load the number of the
\* loadScript call.  Yields the registry afterwards and the exception thrown, if any.
processFunctionHeader(module, intervals, load, lineNumber, tokens) ==
    ParsedFunctionHeader(module, intervals, load, lineNumber, ParseFunctionHeader(tokens))

----------------------------------------------------------------------------
(* processGlobalDefinitions.  Node indices are those of the code (0-based): *)
(* At(nodes, i) is nodes[i].                                                *)

At(nodes, i) == nodes[i + 1]

ReplaceAt(nodes, i, node) == [ nodes EXCEPT ![i + 1] = node ]

EraseOneLess(nodes, index, count) ==
    SubSeq(nodes, 1, index) \o SubSeq(nodes, index + count, Len(nodes))

\* NodeList::erase(index, count)
Erase(nodes, index, count) ==
    SubSeq(nodes, 1, index) \o SubSeq(nodes, index + count + 1, Len(nodes))

\* NodeList::insert(node, index)
Insert(nodes, node, index) ==
    SubSeq(nodes, 1, index) \o << node >> \o SubSeq(nodes, index + 1, Len(nodes))

\* NodeList::erase(indices)
RECURSIVE EraseIndices(_, _, _)
EraseIndices(nodes, indices, i) ==
    IF i >= Len(nodes) THEN << >>
    ELSE (IF i \in indices THEN << >> ELSE << At(nodes, i) >>)
         \o EraseIndices(nodes, indices, i + 1)

EmptyModule == [ functions |-> << >>, globals |-> << >>, defines |-> << >> ]

\* the names that declarations of the module use at module scope
NamesAtModuleScope(module) ==
    { module.globals[i].name : i \in 1..Len(module.globals) }
        \cup { module.defines[i].name : i \in 1..Len(module.defines) }

\* Module::addGlobalVariable(identifier, dataType) with GlobalsLookup::registerVariable:
\* a name already used at module scope is an error
addGlobalVariable(module, identifier, dataType, load) ==
    IF identifier \in NamesAtModuleScope(module)
    THEN [ error |-> "Name already used at module scope", module |-> module ]
    ELSE [ error |-> "",
           module |-> [ module EXCEPT !.globals =
                          Append(@, [ name |-> identifier, dataType |-> dataType,
                                      mInitialValue |-> "", load |-> load ]) ] ]

GlobalInitialValueTakesPragma(g, node, added) ==
    LET tokens == node.tokens
        g0 == [ g EXCEPT !.module = added.module ]
        g1 == IF g.currentPragmas = << >> THEN g0
              ELSE [ g0 EXCEPT !.module.globals[Len(g0.module.globals)].mInitialValue =
                                  Last(g.currentPragmas) ]
    IN  IF added.error /= ""
        THEN [ g EXCEPT !.exc = Exception(added.error, node.line) ]
        ELSE IF 3 + 2 <= Len(tokens) /\ isOperator(Tok(tokens, 3), "=")
        THEN IF ~(3 + 2 = Len(tokens) /\ TokenType(Tok(tokens, 4)) = "CONSTANT")
             THEN [ g1 EXCEPT !.exc =
                      Exception("Expected a constant value for initializing the global variable",
                                node.line) ]
             ELSE [ g1 EXCEPT !.module.globals[Len(g1.module.globals)].mInitialValue =
                                 Tok(tokens, 4) ]
        ELSE g1

\* case Keyword::GLOBAL, after addGlobalVariable returned added
GlobalInitialValue(g, node, added) ==
    LET tokens == node.tokens
        g1 == [ g EXCEPT !.module = added.module ]
    IN  IF added.error /= ""
        THEN [ g EXCEPT !.exc = Exception(added.error, node.line) ]
        ELSE IF 3 + 2 <= Len(tokens) /\ isOperator(Tok(tokens, 3), "=")
        THEN IF ~(3 + 2 = Len(tokens) /\ TokenType(Tok(tokens, 4)) = "CONSTANT")
             THEN [ g1 EXCEPT !.exc =
                      Exception("Expected a constant value for initializing the global variable",
                                node.line) ]
             ELSE [ g1 EXCEPT !.module.globals[Len(g1.module.globals)].mInitialValue =
                                 Tok(tokens, 4) ]
        ELSE g1

GlobalDefinitionIgnoresInitializer(g, node, load) ==
    LET tokens == node.tokens
    IN  IF ~(1 < Len(tokens) /\ TokenType(Tok(tokens, 1)) = "VARTYPE")
        THEN [ g EXCEPT !.exc = Exception("Expected a typename after 'global' keyword", node.line) ]
        ELSE IF ~(2 < Len(tokens) /\ TokenType(Tok(tokens, 2)) = "IDENTIFIER")
        THEN [ g EXCEPT !.exc = Exception("Expected an identifier in global variable definition",
                                          node.line) ]
        ELSE GlobalInitialValue(g, [ node EXCEPT !.tokens = SubSeq(tokens, 1, 3) ],
                                addGlobalVariable(g.module, Tok(tokens, 2), Tok(tokens, 1), load))

\* case Keyword::GLOBAL
GlobalDefinition(g, node, load) ==
    LET tokens == node.tokens
    IN  IF ~(1 < Len(tokens) /\ TokenType(Tok(tokens, 1)) = "VARTYPE")
        THEN [ g EXCEPT !.exc = Exception("Expected a typename after 'global' keyword", node.line) ]
        ELSE IF ~(2 < Len(tokens) /\ TokenType(Tok(tokens, 2)) = "IDENTIFIER")
        THEN [ g EXCEPT !.exc = Exception("Expected an identifier in global variable definition",
                                          node.line) ]
        ELSE GlobalInitialValue(g, node,
                                addGlobalVariable(g.module, Tok(tokens, 2), Tok(tokens, 1), load))

DefineDefinitionSkipsFirstContentToken(g, node, load) ==
    LET tokens == node.tokens
        typed == 1 < Len(tokens) /\ TokenType(Tok(tokens, 1)) = "VARTYPE"
        offset == IF typed THEN 2 ELSE 1
    IN  IF ~(offset < Len(tokens) /\ TokenType(Tok(tokens, offset)) = "IDENTIFIER")
        THEN [ g EXCEPT !.exc = Exception("Expected an identifier for define", node.line) ]
        ELSE IF ~(offset + 1 < Len(tokens) /\ isOperator(Tok(tokens, offset + 1), "="))
        THEN [ g EXCEPT !.exc = Exception("Expected '=' in define", node.line) ]
        ELSE IF ~(offset + 2 < Len(tokens))
        THEN [ g EXCEPT !.exc = Exception("Missing define content", node.line) ]
        ELSE IF ~typed /\ TokenType(Tok(tokens, offset + 2)) /= "VARTYPE"
        THEN [ g EXCEPT !.exc = Exception("Data type of define could not be determined",
                                          node.line) ]
        ELSE LET define == [ name |-> Tok(tokens, offset),
                             dataType |-> IF typed THEN Tok(tokens, 1)
                                          ELSE Tok(tokens, offset + 2),
                             mContent |-> SubSeq(tokens, offset + 4, Len(tokens)),
                             load |-> load ]
             IN  [ g EXCEPT !.module.defines = Append(@, define) ]

\* case Keyword::DEFINE
DefineDefinition(g, node, load) ==
    LET tokens == node.tokens
        typed == 1 < Len(tokens) /\ TokenType(Tok(tokens, 1)) = "VARTYPE"
        offset == IF typed THEN 2 ELSE 1
    IN  IF ~(offset < Len(tokens) /\ TokenType(Tok(tokens, offset)) = "IDENTIFIER")
        THEN [ g EXCEPT !.exc = Exception("Expected an identifier for define", node.line) ]
        ELSE IF ~(offset + 1 < Len(tokens) /\ isOperator(Tok(tokens, offset + 1), "="))
        THEN [ g EXCEPT !.exc = Exception("Expected '=' in define", node.line) ]
        ELSE IF ~(offset + 2 < Len(tokens))
        THEN [ g EXCEPT !.exc = Exception("Missing define content", node.line) ]
        ELSE IF ~typed /\ TokenType(Tok(tokens, offset + 2)) /= "VARTYPE"
        THEN [ g EXCEPT !.exc = Exception("Data type of define could not be determined",
                                          node.line) ]
        ELSE LET define == [ name |-> Tok(tokens, offset),
                             dataType |-> IF typed THEN Tok(tokens, 1)
                                          ELSE Tok(tokens, offset + 2),
                             mContent |-> SubSeq(tokens, offset + 3, Len(tokens)),
                             load |-> load ]
             IN  [ g EXCEPT !.module.defines = Append(@, define) ]

FunctionNodeKeepsBlock(g, node, load, h) ==
    LET id == Len(h.module.functions)
        newNode == [ Node("FUNCTION", node.line) EXCEPT
                       !.function = << id >>,
                       !.content = << At(g.nodes, g.nodeIndex + 1) >> ]
    IN  IF h.exc /= << >>
        THEN [ g EXCEPT !.module = h.module, !.exc = h.exc ]
        ELSE [ g EXCEPT
                 !.module = [ h.module EXCEPT
                                !.functions[id].pragmas = @ \o g.currentPragmas ],
                 !.nodes = ReplaceAt(g.nodes, g.nodeIndex, newNode),
                 !.functionNodes = Append(@, [ load |-> load, line |-> node.line ]),
                 !.nodeIndex = @ + 1 ]

\* case Keyword::FUNCTION, after processFunctionHeader returned h
FunctionNode(g, node, load, h) ==
    LET id == Len(h.module.functions)
        newNode == [ Node("FUNCTION", node.line) EXCEPT
                       !.function = << id >>,
                       !.content = << At(g.nodes, g.nodeIndex + 1) >> ]
    IN  IF h.exc /= << >>
        THEN [ g EXCEPT !.module = h.module, !.exc = h.exc ]
        ELSE [ g EXCEPT
                 !.module = [ h.module EXCEPT
                                !.functions[id].pragmas = @ \o g.currentPragmas ],
                 !.nodes = ReplaceAt(g.nodes, g.nodeIndex, newNode),
                 !.functionNodes = Append(@, [ load |-> load, line |-> node.line ]),
                 !.indicesToErase = @ \cup { g.nodeIndex + 1 },
                 !.nodeIndex = @ + 1 ]

\* case Keyword::FUNCTION
FunctionDefinition(g, node, intervals, load) ==
    IF ~(g.nodeIndex + 1 < Len(g.nodes))
    THEN [ g EXCEPT !.exc = Exception("Function definition as last node is not allowed",
                                      node.line) ]
    ELSE IF At(g.nodes, g.nodeIndex + 1).type /= "BLOCK"
    THEN [ g EXCEPT !.exc = Exception("Expected block node after function header", node.line) ]
    ELSE FunctionNode(g, node, load,
                      processFunctionHeader(g.module, intervals, load, node.line, node.tokens))

GlobalStepKeepsPragmas(g, intervals, load) ==
    LET node == At(g.nodes, g.nodeIndex)
        tokens == node.tokens
        g1 == IF node.type = "PRAGMA"
              THEN [ g EXCEPT !.currentPragmas = Append(@, node.pragma) ]
              ELSE IF node.type = "UNDEFINED"
              THEN IF TokenType(Tok(tokens, 0)) /= "KEYWORD" THEN g
                   ELSE CASE Tok(tokens, 0) = "function" ->
                               FunctionDefinition(g, node, intervals, load)
                          [] Tok(tokens, 0) = "global" ->
                               GlobalDefinition(g, node, load)
                          [] Tok(tokens, 0) = "define" ->
                               DefineDefinition(g, node, load)
                          [] OTHER -> g
              ELSE g
    IN  [ g1 EXCEPT !.nodeIndex = @ + 1 ]

\* one iteration of the loop over the top-level nodes
GlobalStep(g, intervals, load) ==
    LET node == At(g.nodes, g.nodeIndex)
        tokens == node.tokens
        g1 == IF node.type = "PRAGMA"
              THEN [ g EXCEPT !.currentPragmas = Append(@, node.pragma) ]
              ELSE IF node.type = "UNDEFINED"
              THEN LET g2 == IF TokenType(Tok(tokens, 0)) /= "KEYWORD" THEN g
                             ELSE CASE Tok(tokens, 0) = "function" ->
                                         FunctionDefinition(g, node, intervals, load)
                                    [] Tok(tokens, 0) = "global" ->
                                         GlobalDefinition(g, node, load)
                                    [] Tok(tokens, 0) = "define" ->
                                         DefineDefinition(g, node, load)
                                    [] OTHER -> g
                   IN  [ g2 EXCEPT !.currentPragmas = << >> ]
              ELSE g
    IN  [ g1 EXCEPT !.nodeIndex = @ + 1 ]

RECURSIVE GlobalLoop(_, _, _)
GlobalLoop(g, intervals, load) ==
    IF g.exc /= << >> THEN g
    ELSE IF g.nodeIndex < Len(g.nodes) THEN GlobalLoop(GlobalStep(g, intervals, load), intervals, load)
    ELSE [ g EXCEPT !.nodes = EraseIndices(g.nodes, g.indicesToErase, 0) ]

\* processGlobalDefinitions(rootNode)
processGlobalDefinitions(rootNode, module, functionNodes, intervals, load) ==
    GlobalLoop([ nodes |-> rootNode.nodes, nodeIndex |-> 0, currentPragmas |-> << >>,
                 indicesToErase |-> {}, module |-> module, functionNodes |-> functionNodes,
                 exc |-> << >> ], intervals, load)

----------------------------------------------------------------------------
(* ScopeContext: the local variables that are visible, and the stack of    *)
(* open scopes.  A scope records the number of local variables at its      *)
(* begin and how many more processed nodes it stays open for (0: until     *)
(* endScope).                                                              *)

NewScopeContext == [ mLocalVariables |-> << >>, mScopeStack |-> << >> ]

beginScope(scopeContext, numNodes) ==
    [ scopeContext EXCEPT
        !.mScopeStack = Append(@, [ first |-> Len(scopeContext.mLocalVariables),
                                    second |-> numNodes ]) ]

endScope(scopeContext) ==
    [ mLocalVariables |-> SubSeq(scopeContext.mLocalVariables, 1,
                                 Last(scopeContext.mScopeStack).first),
      mScopeStack |-> Front(scopeContext.mScopeStack) ]

onNodeProcessed(scopeContext) ==
    IF scopeContext.mScopeStack /= << >> /\ Last(scopeContext.mScopeStack).second > 0
    THEN IF Last(scopeContext.mScopeStack).second = 1
         THEN endScope(scopeContext)
         ELSE [ scopeContext EXCEPT !.mScopeStack[Len(scopeContext.mScopeStack)].second = @ - 1 ]
    ELSE scopeContext

----------------------------------------------------------------------------
(* processUndefinedNode *)

\* the variables and functions the host has bound: they resolve everywhere
NativeNames == { "a", "b", "x" }

\* the names registered in mGlobalsLookup: the functions, global variables and
\* defines of the module
IsRegistered(name, globalsLookup) ==
    \/ \E k \in 1..Len(globalsLookup.functions) : globalsLookup.functions[k].name = name
    \/ \E k \in 1..Len(globalsLookup.globals) : globalsLookup.globals[k].name = name
    \/ \E k \in 1..Len(globalsLookup.defines) : globalsLookup.defines[k].name = name

IsVisible(name, scopeContext) ==
    \E k \in 1..Len(scopeContext.mLocalVariables) :
        scopeContext.mLocalVariables[k].mIdentifier = name

\* the first token that cannot be resolved is at one of these positions: an
\* identifier that is no visible local variable, not registered and not bound
Unresolved(tokens, from, scopeContext, globalsLookup) ==
    { k \in from..Len(tokens) :
        /\ TokenType(tokens[k]) = "IDENTIFIER"
        /\ ~IsVisible(tokens[k], scopeContext)
        /\ ~IsRegistered(tokens[k], globalsLookup)
        /\ tokens[k] \notin NativeNames }

\* a variable definition: a type and an identifier after the leading keyword, if any
IsVariableDefinition(tokens, keep) ==
    /\ Len(tokens) >= keep + 2
    /\ TokenType(tokens[keep + 1]) = "VARTYPE"
    /\ TokenType(tokens[keep + 2]) = "IDENTIFIER"

\* the variable is declared in the innermost open scope
DeclaredInScope(name, scopeContext) ==
    \E k \in 1..Len(scopeContext.mLocalVariables) :
        /\ scopeContext.mLocalVariables[k].mIdentifier = name
        /\ scopeContext.mScopeStack /= << >>
             => k > Last(scopeContext.mScopeStack).first

\* the rest of TokenProcessing::processTokens, the variable definition done
ResolvedTokens(tokens, keep, from, scopeContext, globalsLookup) ==
    IF Unresolved(tokens, from, scopeContext, globalsLookup) /= {}
    THEN [ error |-> "Unable to resolve identifier", tokens |-> tokens,
           scopeContext |-> scopeContext ]
    ELSE [ error |-> "",
           tokens |-> SubSeq(tokens, 1, keep)
                      \o (IF Len(tokens) > keep THEN << "<statement>" >> ELSE << >>),
           scopeContext |-> scopeContext ]

\* TokenProcessing::processTokens: a variable definition adds a local variable to
\* the scope context, the identifiers are resolved, and the tokens after a leading
\* keyword become one statement token
processTokens(tokens, scopeContext, globalsLookup) ==
    LET keep == IF tokens /= << >> /\ TokenType(tokens[1]) = "KEYWORD" THEN 1 ELSE 0
    IN  IF IsVariableDefinition(tokens, keep)
        THEN IF DeclaredInScope(tokens[keep + 2], scopeContext)
             THEN [ error |-> "Variable name already used", tokens |-> tokens,
                    scopeContext |-> scopeContext ]
             ELSE ResolvedTokens(tokens, keep, keep + 3,
                                 [ scopeContext EXCEPT
                                     !.mLocalVariables =
                                        Append(@, [ mType |-> tokens[keep + 1],
                                                    mIdentifier |-> tokens[keep + 2] ]) ],
                                 globalsLookup)
        ELSE ResolvedTokens(tokens, keep, keep + 1, scopeContext, globalsLookup)

\* positions of the semicolon separators between firstIndex and endIndex
Semicolons(tokens) ==
    { i \in 2..(Len(tokens) - 2) : isOperator(Tok(tokens, i), ";") }

RECURSIVE ForClauses(_, _, _, _, _)

\* clause i of the header is processed: p is what processTokens made of it
ForClauseProcessed(tokens, splitPosition, i, p, globalsLookup) ==
    IF p.error /= "" THEN p
    ELSE ForClauses(tokens, splitPosition, i + 1, p.scopeContext, globalsLookup)

\* the loop over the three clauses of the header, from clause i on
ForClauses(tokens, splitPosition, i, scopeContext, globalsLookup) ==
    IF i > 3 THEN [ error |-> "", tokens |-> tokens, scopeContext |-> scopeContext ]
    ELSE IF splitPosition[i + 1] - splitPosition[i] - 1 > 0
    THEN ForClauseProcessed(tokens, splitPosition, i,
                            processTokens(SubSeq(tokens, splitPosition[i] + 2,
                                                 splitPosition[i + 1]),
                                          scopeContext, globalsLookup),
                            globalsLookup)
    ELSE ForClauses(tokens, splitPosition, i + 1, scopeContext, globalsLookup)

\* the end of case Keyword::FOR: c is what the loop over the clauses left
ForNode(tokens, lineNumber, c) ==
    IF c.error /= ""
    THEN [ node |-> << >>, tokens |-> tokens, scopeContext |-> c.scopeContext,
           exc |-> Exception(c.error, lineNumber) ]
    ELSE [ node |-> << Node("FOR_STATEMENT", lineNumber) >>, tokens |-> tokens,
           scopeContext |-> c.scopeContext, exc |-> << >> ]

\* the split positions of a header with two semicolons
SplitPosition(tokens, semis) ==
    << 1, CHOOSE i \in semis : \A j \in semis : i <= j,
          CHOOSE i \in semis : \A j \in semis : j <= i, Len(tokens) - 1 >>

\* case Keyword::FOR
ForHeader(tokens, lineNumber, scopeContext, globalsLookup) ==
    LET fail(msg) == [ node |-> << >>, tokens |-> tokens, scopeContext |-> scopeContext,
                       exc |-> Exception(msg, lineNumber) ]
    IN  IF ~(Len(tokens) >= 3)
        THEN fail("Not enough tokens found after 'for' keyword")
        ELSE IF ~isOperator(Tok(tokens, 1), "(")
        THEN fail("Expected opening parenthesis after 'for' keyword")
        ELSE IF ~isOperator(Last(tokens), ")")
        THEN fail("Expected closing parenthesis as last token after 'for' keyword")
        ELSE IF Cardinality(Semicolons(tokens)) /= 2
        THEN fail("Expected exactly two semicolons in 'for' loop header")
        ELSE ForNode(tokens, lineNumber,
                     ForClauses(tokens, SplitPosition(tokens, Semicolons(tokens)), 1,
                                beginScope(scopeContext, 2), globalsLookup))

\* the body of processUndefinedNode, p being what processTokens makes of the tokens:
\* yields the new node
\* (<< >> for nullptr), the token list left in the undefined node, the scope context
\* and the exception thrown, if any
UndefinedNodeWith(tokens, lineNumber, scopeContext, globalsLookup, p) ==
    LET ok(type, toks) == [ node |-> << Node(type, lineNumber) >>, tokens |-> toks,
                            scopeContext |-> scopeContext, exc |-> << >> ]
        okp(type, toks) == [ node |-> << Node(type, lineNumber) >>, tokens |-> toks,
                             scopeContext |-> p.scopeContext, exc |-> << >> ]
        fail(msg) == [ node |-> << >>, tokens |-> tokens, scopeContext |-> scopeContext,
                       exc |-> Exception(msg, lineNumber) ]
        failp(msg) == [ node |-> << >>, tokens |-> tokens, scopeContext |-> p.scopeContext,
                        exc |-> Exception(msg, lineNumber) ]
        none == [ node |-> << >>, tokens |-> tokens, scopeContext |-> scopeContext,
                  exc |-> << >> ]
        kw == tokens[1]
    IN  IF TokenType(kw) = "KEYWORD" THEN
            CASE kw = "return" ->
                   IF p.error /= "" THEN failp(p.error)
                   ELSE IF Len(p.tokens) > 2 THEN failp("Return can have up to one statement")
                   ELSE okp("RETURN", << kw >>)
              [] kw \in { "call", "jump" } ->
                   IF p.error /= "" THEN failp(p.error)
                   ELSE IF Len(p.tokens) /= 2
                   THEN failp("'call' and 'jump' need an additional token after them")
                   ELSE okp("EXTERNAL", << kw >>)
              [] kw = "break" ->
                   IF Len(tokens) /= 1 THEN fail("There must be no token after 'break' keyword")
                   ELSE ok("BREAK", tokens)
              [] kw = "continue" ->
                   IF Len(tokens) /= 1 THEN fail("There must be no token after 'continue' keyword")
                   ELSE ok("CONTINUE", tokens)
              [] kw = "if" ->
                   IF p.error /= "" THEN failp(p.error)
                   ELSE IF Len(p.tokens) /= 2 THEN failp("Expected single statement after 'if' keyword")
                   ELSE okp("IF_STATEMENT", << kw >>)
              [] kw = "else" -> ok("ELSE_STATEMENT", tokens)
              [] kw = "while" ->
                   IF p.error /= "" THEN failp(p.error)
                   ELSE IF Len(p.tokens) /= 2
                   THEN failp("Expected single statement after 'while' keyword")
                   ELSE okp("WHILE_STATEMENT", << kw >>)
              [] kw = "for" -> ForHeader(tokens, lineNumber, scopeContext, globalsLookup)
              [] OTHER -> none
        ELSE IF TokenType(kw) = "LABEL" THEN
            IF Len(tokens) /= 2 THEN fail("Expected only colon after label")
            ELSE IF ~isOperator(Tok(tokens, 1), ":") THEN fail("Expected a colon operator after label")
            ELSE ok("LABEL", tokens)
        ELSE
            IF p.error /= "" THEN failp(p.error)
            ELSE okp("STATEMENT", << >>)

\* processUndefinedNode(undefinedNode, function, scopeContext)
processUndefinedNode(tokens, lineNumber, scopeContext, globalsLookup) ==
    UndefinedNodeWith(tokens, lineNumber, scopeContext, globalsLookup,
                      processTokens(tokens, scopeContext, globalsLookup))

----------------------------------------------------------------------------
RECURSIVE formSingleStatementElseOfOuterIf(_, _)
formSingleStatementElseOfOuterIf(nodes, index) ==
    IF ~(index < Len(nodes))
    THEN [ nodes |-> nodes,
           exc |-> Exception("Expected another node to form statement of", Last(nodes).line) ]
    ELSE
    LET node == At(nodes, index)
    IN  CASE node.type = "IF_STATEMENT" ->
               LET nested == index + 2 < Len(nodes)
                               /\ At(nodes, index + 1).type = "IF_STATEMENT"
                   r0 == formSingleStatementElseOfOuterIf(nodes, index + 2)
                   r1 == IF nested
                         THEN [ nodes |-> Erase(ReplaceAt(r0.nodes, index + 1,
                                                          [ At(nodes, index + 1) EXCEPT
                                                              !.contentIf =
                                                                 << At(r0.nodes, index + 2) >> ]),
                                                index + 2, 1),
                                exc |-> r0.exc ]
                         ELSE formSingleStatementElseOfOuterIf(nodes, index + 1)
                   n1 == ReplaceAt(r1.nodes, index,
                                   [ node EXCEPT !.contentIf = << At(r1.nodes, index + 1) >> ])
                   hasElse == index + 2 < Len(n1)
                                /\ At(n1, index + 2).type = "ELSE_STATEMENT"
                   r2 == formSingleStatementElseOfOuterIf(n1, index + 3)
                   n2 == ReplaceAt(r2.nodes, index,
                                   [ At(n1, index) EXCEPT
                                       !.contentElse = << At(r2.nodes, index + 3) >> ])
               IN  IF r1.exc /= << >> THEN r1
                   ELSE IF ~hasElse THEN [ nodes |-> Erase(n1, index + 1, 1), exc |-> << >> ]
                   ELSE IF r2.exc /= << >> THEN r2
                   ELSE [ nodes |-> Erase(n2, index + 1, 3), exc |-> << >> ]
          [] node.type = "ELSE_STATEMENT" ->
               [ nodes |-> nodes, exc |-> Exception("Else in wrong location", node.line) ]
          [] node.type \in { "WHILE_STATEMENT", "FOR_STATEMENT" } ->
               LET r1 == formSingleStatementElseOfOuterIf(nodes, index + 1)
               IN  IF r1.exc /= << >> THEN r1
                   ELSE [ nodes |-> Erase(ReplaceAt(r1.nodes, index,
                                                    [ node EXCEPT
                                                        !.content = << At(r1.nodes, index + 1) >> ]),
                                          index + 1, 1),
                          exc |-> << >> ]
          [] OTHER -> [ nodes |-> nodes, exc |-> << >> ]

(* formSingleStatement(blockNode, index) on the node list of the block:    *)
(* yields the node list afterwards and the exception thrown, if any.       *)

RECURSIVE formSingleStatement(_, _)
formSingleStatement(nodes, index) ==
    IF ~(index < Len(nodes))
    THEN [ nodes |-> nodes,
           exc |-> Exception("Expected another node to form statement of", Last(nodes).line) ]
    ELSE
    LET node == At(nodes, index)
    IN  CASE node.type = "IF_STATEMENT" ->
               LET r1 == formSingleStatement(nodes, index + 1)
                   n1 == ReplaceAt(r1.nodes, index,
                                   [ node EXCEPT !.contentIf = << At(r1.nodes, index + 1) >> ])
                   hasElse == index + 2 < Len(n1)
                                /\ At(n1, index + 2).type = "ELSE_STATEMENT"
                   r2 == formSingleStatement(n1, index + 3)
                   n2 == ReplaceAt(r2.nodes, index,
                                   [ At(n1, index) EXCEPT
                                       !.contentElse = << At(r2.nodes, index + 3) >> ])
               IN  IF r1.exc /= << >> THEN r1
                   ELSE IF ~hasElse THEN [ nodes |-> Erase(n1, index + 1, 1), exc |-> << >> ]
                   ELSE IF r2.exc /= << >> THEN r2
                   ELSE [ nodes |-> Erase(n2, index + 1, 3), exc |-> << >> ]
          [] node.type = "ELSE_STATEMENT" ->
               [ nodes |-> nodes, exc |-> Exception("Else in wrong location", node.line) ]
          [] node.type \in { "WHILE_STATEMENT", "FOR_STATEMENT" } ->
               LET r1 == formSingleStatement(nodes, index + 1)
               IN  IF r1.exc /= << >> THEN r1
                   ELSE [ nodes |-> Erase(ReplaceAt(r1.nodes, index,
                                                    [ node EXCEPT
                                                        !.content = << At(r1.nodes, index + 1) >> ]),
                                          index + 1, 1),
                          exc |-> << >> ]
          [] OTHER -> [ nodes |-> nodes, exc |-> << >> ]

----------------------------------------------------------------------------
(* processUndefinedNodesInBlock(blockNode, function, scopeContext): yields *)
(* the block afterwards, the scope context and the exception thrown.       *)

RECURSIVE MergeLoopIgnoresElse(_, _)
MergeLoopIgnoresElse(nodes, i) ==
    IF ~(i < Len(nodes)) THEN [ nodes |-> nodes, exc |-> << >> ]
    ELSE LET node == At(nodes, i)
         IN  IF node.type \in { "IF_STATEMENT", "WHILE_STATEMENT", "FOR_STATEMENT" }
             THEN LET r == formSingleStatement(nodes, i)
                  IN  IF r.exc /= << >> THEN r ELSE MergeLoopIgnoresElse(r.nodes, i + 1)
             ELSE MergeLoopIgnoresElse(nodes, i + 1)

\* the second loop: merge if, else, while, for with their block(s) or statement
RECURSIVE MergeLoop(_, _)
MergeLoop(nodes, i) ==
    IF ~(i < Len(nodes)) THEN [ nodes |-> nodes, exc |-> << >> ]
    ELSE LET node == At(nodes, i)
         IN  IF node.type \in { "IF_STATEMENT", "WHILE_STATEMENT", "FOR_STATEMENT" }
             THEN LET r == formSingleStatement(nodes, i)
                  IN  IF r.exc /= << >> THEN r ELSE MergeLoop(r.nodes, i + 1)
             ELSE IF node.type = "ELSE_STATEMENT"
             THEN [ nodes |-> nodes, exc |-> Exception("Else in wrong location", node.line) ]
             ELSE MergeLoop(nodes, i + 1)

\* the undefined node at index i is replaced by the node r1 made of it
ReplaceUndefined(nodes, i, r1) ==
    IF r1.exc /= << >> \/ r1.node = << >>
    THEN [ nodes |-> nodes, scopeContext |-> r1.scopeContext, exc |-> r1.exc ]
    ELSE [ nodes |-> ReplaceAt(nodes, i, r1.node[1]),
           scopeContext |-> r1.scopeContext, exc |-> << >> ]

\* the special case of 'else' followed by more tokens: r2 is what the second
\* call of processUndefinedNode made of the tokens left
InsertSecondNode(nodes, i, r1, r2) ==
    IF r2.exc /= << >> \/ r2.node = << >>
    THEN [ nodes |-> ReplaceAt(nodes, i, r1.node[1]),
           scopeContext |-> r2.scopeContext, exc |-> r2.exc ]
    ELSE [ nodes |-> ReplaceAt(Insert(nodes, r2.node[1], i + 1), i, r1.node[1]),
           scopeContext |-> r2.scopeContext, exc |-> << >> ]

\* r1 is what processUndefinedNode made of the undefined node at index i
ClassifiedUndefined(nodes, i, lineNumber, globalsLookup, r1) ==
    IF r1.exc = << >> /\ r1.node /= << >>
         /\ r1.node[1].type = "ELSE_STATEMENT" /\ Tail(r1.tokens) /= << >>
    THEN InsertSecondNode(nodes, i, r1,
                          processUndefinedNode(Tail(r1.tokens), lineNumber, r1.scopeContext,
                                               globalsLookup))
    ELSE ReplaceUndefined(nodes, i, r1)

ClassifyUndefinedNoSecondNode(nodes, i, scopeContext, globalsLookup) ==
    ReplaceUndefined(nodes, i,
                     processUndefinedNode(At(nodes, i).tokens, At(nodes, i).line, scopeContext,
                                          globalsLookup))

\* case Node::Type::UNDEFINED of the first loop, on the node at index i
ClassifyUndefined(nodes, i, scopeContext, globalsLookup) ==
    ClassifiedUndefined(nodes, i, At(nodes, i).line, globalsLookup,
                        processUndefinedNode(At(nodes, i).tokens, At(nodes, i).line,
                                             scopeContext, globalsLookup))

RECURSIVE processUndefinedNodesInBlock(_, _, _)
RECURSIVE ClassifyLoop(_, _, _, _)

\* case Node::Type::BLOCK of the first loop: b is the block at index i, processed
ReplaceBlock(nodes, i, b) ==
    [ nodes |-> ReplaceAt(nodes, i, b.block), scopeContext |-> b.scopeContext,
      exc |-> b.exc ]

\* the switch in the first loop, on the node at index i
ClassifyNode(nodes, i, scopeContext, globalsLookup) ==
    CASE At(nodes, i).type = "BLOCK" ->
           ReplaceBlock(nodes, i,
                        processUndefinedNodesInBlock(At(nodes, i), scopeContext, globalsLookup))
      [] At(nodes, i).type = "UNDEFINED" ->
           ClassifyUndefined(nodes, i, scopeContext, globalsLookup)
      [] OTHER -> [ nodes |-> nodes, scopeContext |-> scopeContext, exc |-> << >> ]

\* the end of an iteration of the first loop: r is what the switch left
ClassifyNext(r, i, globalsLookup) ==
    IF r.exc /= << >> THEN r
    ELSE ClassifyLoop(r.nodes, i + 1, onNodeProcessed(r.scopeContext), globalsLookup)

\* the first loop: classify the undefined nodes, descend into blocks
ClassifyLoop(nodes, i, scopeContext, globalsLookup) ==
    IF ~(i < Len(nodes)) THEN [ nodes |-> nodes, scopeContext |-> scopeContext, exc |-> << >> ]
    ELSE ClassifyNext(ClassifyNode(nodes, i, scopeContext, globalsLookup), i, globalsLookup)

\* the end of processUndefinedNodesInBlock: m is what the second loop left
MergedBlock(blockNode, c, m) ==
    IF m.exc /= << >>
    THEN [ block |-> [ blockNode EXCEPT !.nodes = m.nodes ],
           scopeContext |-> c.scopeContext, exc |-> m.exc ]
    ELSE [ block |-> [ blockNode EXCEPT !.nodes = m.nodes ],
           scopeContext |-> endScope(c.scopeContext), exc |-> << >> ]

\* processUndefinedNodesInBlock after its first loop: c is what the first loop left
ClassifiedBlock(blockNode, c) ==
    IF c.exc /= << >>
    THEN [ block |-> [ blockNode EXCEPT !.nodes = c.nodes ],
           scopeContext |-> c.scopeContext, exc |-> c.exc ]
    ELSE MergedBlock(blockNode, c, MergeLoop(c.nodes, 0))

processUndefinedNodesInBlock(blockNode, scopeContext, globalsLookup) ==
    ClassifiedBlock(blockNode,
                    ClassifyLoop(blockNode.nodes, 0, beginScope(scopeContext, 0), globalsLookup))

----------------------------------------------------------------------------
(* processSingleFunction and compileLines *)

ScopeContextWithoutParameters(function) == NewScopeContext

\* the scope context processSingleFunction builds: a new one, holding the local
\* variables the function has so far
ScopeContextOf(function) ==
    [ NewScopeContext EXCEPT !.mLocalVariables = function.locals ]

\* processSingleFunction(functionNode): the scope context starts with the local
\* variables the function has so far, its parameters; then the content block of the
\* function is shaped
processSingleFunction(functionNode, function, globalsLookup) ==
    processUndefinedNodesInBlock(functionNode.content[1], ScopeContextOf(function),
                                 globalsLookup)

\* the loop over mFunctionNodes.  An entry of an earlier load points into a root
\* block that is destroyed: processing it is undefined; staleThrows picks whether
\* it goes unnoticed or ends in a CompilerException.
RECURSIVE FunctionLoop(_, _, _, _, _)

\* an entry of the current load: r is what processSingleFunction made of node i
ProcessedFunction(nodes, module, functionNodes, load, staleThrows, i, r) ==
    IF r.exc /= << >> THEN [ nodes |-> nodes, exc |-> r.exc ]
    ELSE FunctionLoop([ nodes EXCEPT ![i].content = << r.block >> ], module,
                      Tail(functionNodes), load, staleThrows)

ProcessFunctionAtKnowsEarlierOnly(nodes, module, functionNodes, load, staleThrows, i) ==
    ProcessedFunction(nodes, module, functionNodes, load, staleThrows, i,
                      processSingleFunction(nodes[i], module.functions[nodes[i].function[1]],
                                            [ module EXCEPT
                                                !.functions =
                                                   SubSeq(@, 1, nodes[i].function[1]) ]))

\* an entry of the current load points to the function node i of the root block
ProcessFunctionAt(nodes, module, functionNodes, load, staleThrows, i) ==
    ProcessedFunction(nodes, module, functionNodes, load, staleThrows, i,
                      processSingleFunction(nodes[i], module.functions[nodes[i].function[1]],
                                            module))

FunctionLoop(nodes, module, functionNodes, load, staleThrows) ==
    IF functionNodes = << >> THEN [ nodes |-> nodes, exc |-> << >> ]
    ELSE IF Head(functionNodes).load /= load
    THEN IF staleThrows
         THEN [ nodes |-> nodes,
                exc |-> Exception("Error in node of a destroyed block",
                                  Head(functionNodes).line) ]
         ELSE FunctionLoop(nodes, module, Tail(functionNodes), load, staleThrows)
    ELSE ProcessFunctionAt(nodes, module, functionNodes, load, staleThrows,
                           CHOOSE j \in 1..Len(nodes) :
                              nodes[j].type = "FUNCTION"
                                /\ nodes[j].line = Head(functionNodes).line)

\* ErrorMessage { mMessage, mFilename, mLineNumber }; mLineNumber is a uint32
ErrorMessage(message, filename, lineNumber) ==
    [ mMessage |-> message, mFilename |-> filename, mLineNumber |-> lineNumber ]

\* the catch block of compileLines: the error is recorded with the translated line
\* number, the function nodes are cleared
CaughtException(moduleAfter, intervals, errors, exc, pair) ==
    [ success |-> FALSE, module |-> moduleAfter, functionNodes |-> << >>,
      errors |-> Append(errors, ErrorMessage(exc[1].msg, pair.second,
                                             U32Add(pair.first, ToU32(1)))),
      exc |-> exc, root |-> << >> ]

catchException(moduleAfter, intervals, errors, exc) ==
    CaughtException(moduleAfter, intervals, errors, exc,
                    translateLineNumber(intervals, ToU32(exc[1].line)))

\* compileLines after the loop over the function nodes, which left f
FunctionsProcessed(g, intervals, errors, f) ==
    IF f.exc /= << >> THEN catchException(g.module, intervals, errors, f.exc)
    ELSE [ success |-> TRUE, module |-> g.module, functionNodes |-> g.functionNodes,
           errors |-> errors, exc |-> << >>, root |-> f.nodes ]

\* compileLines after processGlobalDefinitions, which left g
GlobalsProcessed(intervals, errors, load, staleThrows, g) ==
    IF g.exc /= << >> THEN catchException(g.module, intervals, errors, g.exc)
    ELSE FunctionsProcessed(g, intervals, errors,
                            FunctionLoop(g.nodes, g.module, g.functionNodes, load,
                                         staleThrows))

\* compileLines after buildNodesFromCodeLines, which left b
NodesBuilt(module, functionNodes, intervals, errors, load, staleThrows, b) ==
    IF b.exc /= << >> THEN catchException(module, intervals, errors, b.exc)
    ELSE GlobalsProcessed(intervals, errors, load, staleThrows,
                          processGlobalDefinitions(b.root, module, functionNodes,
                                                   intervals, load))

\* compileLines(lines): yields the return value and the members it changes
compileLines(lines, module, functionNodes, intervals, errors, load, stringTableFull, staleThrows) ==
    NodesBuilt(module, functionNodes, intervals, errors, load, staleThrows,
               buildNodesFromCodeLines(lines, stringTableFull))

----------------------------------------------------------------------------
(* Script loading: loadScript, loadCodeLines, loadScriptInternal.          *)
(* An activation record of loadScriptInternal holds the file, the index    *)
(* of the line the loop is at, and the files the include line at that      *)
(* index still has to load.                                                *)

Frame(file) == [ file |-> file, fileLineIndex |-> 0, pending |-> << >> ]

Top == Last(stack)

\* line.rfind("include ", 0) == 0
IsInclude(line) == line /= << >> /\ line[1] = "include"

\* a line the preprocessor rejects; processLines throws with its 1-based line number
IsPreprocessorError(line) == line /= << >> /\ line[1] = "#endif"

PreprocessorErrorLines(file) ==
    { i \in 1..Len(fs[file]) : IsPreprocessorError(fs[file][i]) }

\* FileSystem::listFilesByMask(basepath + "*.lemon"): the script files of the directory
FileOrder == << "A", "B" >>

ListFiles == SelectSeq(FileOrder, LAMBDA f : f \in DOMAIN fs)

\* the file(s) an include line names
IncludeTargets(line) == IF line[2] = "?" THEN ListFiles ELSE << line[2] >>

\* the check for a cycle in the includes, on the incremented inclusion depth
TooDeepOffByOne(inclusionDepth) == inclusionDepth > MaxInclusionDepth

TooDeep(inclusionDepth) == inclusionDepth >= MaxInclusionDepth

LoadScriptKeepsErrors(path) ==
    /\ pc \in { "idle", "done" }
    /\ loads < MaxLoads
    /\ loads' = loads + 1
    /\ outLines' = << >>
    /\ stack' = << >>
    /\ callee' = path
    /\ lastExc' = << >>
    /\ pc' = "call"
    /\ UNCHANGED << fs, mErrors, mIntervals, mFunctionNodes, registered, result, lastPush,
                    bld, shp, gdp >>

\* loadScript(path) up to the call of loadScriptInternal
LoadScript(path) ==
    /\ pc \in { "idle", "done" }
    /\ loads < MaxLoads
    /\ loads' = loads + 1
    /\ mErrors' = << >>
    /\ outLines' = << >>
    /\ stack' = << >>
    /\ callee' = path
    /\ lastExc' = << >>
    /\ pc' = "call"
    /\ UNCHANGED << fs, mIntervals, mFunctionNodes, registered, result, lastPush, bld, shp, gdp >>

\* loadScriptInternal: the inclusion depth check fails
EnterTooDeep ==
    /\ pc = "call"
    /\ TooDeep(Len(stack) + 1)
    /\ mErrors' = Append(mErrors,
                         ErrorMessage("Unusually high recursion depth in lemon script includes",
                                      "", ToU32(0)))
    /\ pc' = "fail"
    /\ UNCHANGED << fs, stack, callee, outLines, mIntervals, mFunctionNodes, registered,
                    result, loads, lastPush, lastExc, bld, shp, gdp >>

\* loadScriptInternal: the file cannot be loaded
EnterLoadFailed ==
    /\ pc = "call"
    /\ ~TooDeep(Len(stack) + 1)
    /\ callee \notin DOMAIN fs
    /\ mErrors' = Append(mErrors, ErrorMessage("Failed to load script file", "", ToU32(0)))
    /\ pc' = "fail"
    /\ UNCHANGED << fs, stack, callee, outLines, mIntervals, mFunctionNodes, registered,
                    result, loads, lastPush, lastExc, bld, shp, gdp >>

\* loadScriptInternal: the file is loaded, the preprocessor throws
EnterPreprocessorError ==
    /\ pc = "call"
    /\ ~TooDeep(Len(stack) + 1)
    /\ callee \in DOMAIN fs
    /\ PreprocessorErrorLines(callee) /= {}
    /\ LET lineNumber == CHOOSE i \in PreprocessorErrorLines(callee) :
                             \A j \in PreprocessorErrorLines(callee) : i <= j
       IN  mErrors' = Append(mErrors, ErrorMessage("Preprocessor error", callee,
                                                   ToU32(lineNumber)))
    /\ mIntervals' = push(mIntervals, Len(outLines) + 1, callee, 0)
    /\ lastPush' = PushRecord(mIntervals, Len(outLines) + 1, callee, 0)
    /\ pc' = "fail"
    /\ UNCHANGED << fs, stack, callee, outLines, mFunctionNodes, registered,
                    result, loads, lastExc, bld, shp, gdp >>

\* loadScriptInternal: the file is loaded and preprocessed, the loop over its lines starts
EnterFile ==
    /\ pc = "call"
    /\ ~TooDeep(Len(stack) + 1)
    /\ callee \in DOMAIN fs
    /\ PreprocessorErrorLines(callee) = {}
    /\ mIntervals' = push(mIntervals, Len(outLines) + 1, callee, 0)
    /\ lastPush' = PushRecord(mIntervals, Len(outLines) + 1, callee, 0)
    /\ stack' = Append(stack, Frame(callee))
    /\ pc' = "lines"
    /\ UNCHANGED << fs, callee, outLines, mErrors, mFunctionNodes, registered,
                    result, loads, lastExc, bld, shp, gdp >>

\* the loop body for a line that is no include: the line goes to the output
CopyLine ==
    /\ pc = "lines"
    /\ Top.fileLineIndex < Len(fs[Top.file])
    /\ LET line == fs[Top.file][Top.fileLineIndex + 1]
       IN  /\ ~IsInclude(line)
           /\ outLines' = Append(outLines, [ text |-> line, file |-> Top.file,
                                             k |-> Top.fileLineIndex + 1 ])
    /\ stack' = [ stack EXCEPT ![Len(stack)].fileLineIndex = @ + 1 ]
    /\ UNCHANGED << fs, pc, callee, mIntervals, mErrors, mFunctionNodes, registered,
                    result, loads, lastPush, lastExc, bld, shp, gdp >>

IncludeLineSkipsFile ==
    /\ pc = "lines"
    /\ Top.fileLineIndex < Len(fs[Top.file])
    /\ IsInclude(fs[Top.file][Top.fileLineIndex + 1])
    /\ stack' = [ stack EXCEPT ![Len(stack)].fileLineIndex = @ + 1 ]
    /\ UNCHANGED << fs, pc, callee, outLines, mIntervals, mErrors, mFunctionNodes, registered,
                    result, loads, lastPush, lastExc, bld, shp, gdp >>

\* the loop body for an include line, up to the (first) recursive call
IncludeLine ==
    /\ pc = "lines"
    /\ Top.fileLineIndex < Len(fs[Top.file])
    /\ LET line == fs[Top.file][Top.fileLineIndex + 1]
       IN  /\ IsInclude(line)
           /\ IncludeTargets(line) /= << >>
           /\ stack' = [ stack EXCEPT ![Len(stack)].pending = IncludeTargets(line) ]
           /\ callee' = Head(IncludeTargets(line))
    /\ pc' = "call"
    /\ UNCHANGED << fs, outLines, mIntervals, mErrors, mFunctionNodes, registered,
                    result, loads, lastPush, lastExc, bld, shp, gdp >>

\* loadScriptInternal returns true.  The caller goes on with the next file of its
\* include line, or pushes the interval "back to this file" and moves to its next
\* line; the outermost call returns to loadCodeLines and loadScript, which compiles.
ReturnTrue ==
    /\ pc = "lines"
    /\ Top.fileLineIndex = Len(fs[Top.file])
    /\ LET callers == Front(stack)
           caller == Last(callers)
           rest == Tail(caller.pending)
       IN  IF callers = << >>
           THEN /\ stack' = << >>
                /\ pc' = "compile"
                /\ UNCHANGED << callee, mIntervals, lastPush >>
           ELSE IF rest /= << >>
           THEN /\ stack' = [ callers EXCEPT ![Len(callers)].pending = rest ]
                /\ callee' = Head(rest)
                /\ pc' = "call"
                /\ UNCHANGED << mIntervals, lastPush >>
           ELSE /\ stack' = [ callers EXCEPT ![Len(callers)].pending = << >>,
                                             ![Len(callers)].fileLineIndex = @ + 1 ]
                /\ mIntervals' = push(mIntervals, Len(outLines) + 1, caller.file,
                                      caller.fileLineIndex)
                /\ lastPush' = PushRecord(mIntervals, Len(outLines) + 1, caller.file,
                                          caller.fileLineIndex)
                /\ pc' = "lines"
                /\ UNCHANGED callee
    /\ UNCHANGED << fs, outLines, mErrors, mFunctionNodes, registered, result, loads,
                    lastExc, bld, shp, gdp >>

\* loadScriptInternal returned false: the caller returns false at once, up to
\* loadCodeLines and loadScript
ReturnFalse ==
    /\ pc = "fail"
    /\ IF stack = << >>
       THEN /\ pc' = "done"
            /\ result' = FALSE
            /\ UNCHANGED stack
       ELSE /\ stack' = Front(stack)
            /\ UNCHANGED << pc, result >>
    /\ UNCHANGED << fs, callee, outLines, mIntervals, mErrors, mFunctionNodes, registered,
                    loads, lastPush, lastExc, bld, shp, gdp >>

\* loadScript: compileLines(inputLines) and return of its result
CompileLines(stringTableFull, staleThrows) ==
    /\ pc = "compile"
    /\ \E c \in { compileLines([ i \in 1..Len(outLines) |-> outLines[i].text ],
                                registered, mFunctionNodes, mIntervals, mErrors, loads,
                                stringTableFull, staleThrows) } :
           /\ registered' = c.module
           /\ mFunctionNodes' = c.functionNodes
           /\ mErrors' = c.errors
           /\ lastExc' = c.exc
           /\ result' = c.success
    /\ pc' = "done"
    /\ UNCHANGED << fs, stack, callee, outLines, mIntervals, loads, lastPush, bld, shp, gdp >>

----------------------------------------------------------------------------
(* Specification of script loading: a Compiler, a directory of script      *)
(* files A and B (a file M does not exist), and loadScript calls.  A       *)
(* includes B, a missing file or every file of the directory; B includes   *)
(* A: a file includes itself by way of the other file or of the wildcard.  *)

LineStatement == << "x" >>
LineBraceNotAlone == << "{", "x" >>
LinePreprocessorError == << "#endif" >>
LineInclude(name) == << "include", name >>

LoadLinesA == { LineStatement, LineBraceNotAlone, LinePreprocessorError,
                LineInclude("B"), LineInclude("M"), LineInclude("?") }

LoadLinesB == { LineStatement, LineBraceNotAlone, LineInclude("A") }

Paths == { "A", "M" }

BuildOff == [ phase |-> "off" ]

ShapeOff == [ phase |-> "off" ]

GlobalsOff == [ phase |-> "off" ]

InitCompiler ==
    /\ pc = "idle"
    /\ stack = << >>
    /\ callee = ""
    /\ outLines = << >>
    /\ mIntervals = << >>
    /\ mErrors = << >>
    /\ mFunctionNodes = << >>
    /\ registered = EmptyModule
    /\ result = FALSE
    /\ loads = 0
    /\ lastPush = << >>
    /\ lastExc = << >>

Init ==
    /\ fs \in { [ A |-> a, B |-> b ] : a \in SeqsUpTo(LoadLinesA, MaxLinesA),
                                       b \in SeqsUpTo(LoadLinesB, MaxLinesB) }
    /\ InitCompiler
    /\ bld = BuildOff
    /\ shp = ShapeOff
    /\ gdp = GlobalsOff

Next ==
    \/ \E path \in Paths : LoadScript(path)
    \/ EnterTooDeep
    \/ EnterLoadFailed
    \/ EnterPreprocessorError
    \/ EnterFile
    \/ CopyLine
    \/ IncludeLine
    \/ ReturnTrue
    \/ ReturnFalse
    \/ \E stringTableFull \in BOOLEAN, staleThrows \in BOOLEAN :
          CompileLines(stringTableFull, staleThrows)

Spec == Init /\ [][Next]_vars

\* the steps of loadCodeLines; a call, once made, runs until it returns
LoadStep ==
    \/ EnterTooDeep
    \/ EnterLoadFailed
    \/ EnterPreprocessorError
    \/ EnterFile
    \/ CopyLine
    \/ IncludeLine
    \/ ReturnTrue
    \/ ReturnFalse

\* include cycles, direct ones too: smaller files, the loader under weak fairness of
\* its steps
CycleLinesA == { LineStatement, LinePreprocessorError, LineInclude("A"), LineInclude("B") }

CycleLinesB == { LineStatement, LineInclude("A") }

InitCycles ==
    /\ fs \in { [ A |-> a, B |-> b ] : a \in SeqsUpTo(CycleLinesA, MaxCycleLines),
                                       b \in SeqsUpTo(CycleLinesB, MaxCycleLines) }
    /\ InitCompiler
    /\ bld = BuildOff
    /\ shp = ShapeOff
    /\ gdp = GlobalsOff

FairSpec == InitCycles /\ [][Next]_vars /\ WF_vars(LoadStep)

----------------------------------------------------------------------------
(* Specification of includes without a cycle: script files A, B and C; A   *)
(* includes B and C, B includes C.                                         *)

IncludeLinesA == { LineStatement, LineInclude("B"), LineInclude("C") }

IncludeLinesB == { LineStatement, LineInclude("C") }

IncludeLinesC == { LineStatement }

InitInclude ==
    /\ fs \in { [ A |-> a, B |-> b, C |-> c ] : a \in SeqsUpTo(IncludeLinesA, MaxIncludeLines),
                                                b \in SeqsUpTo(IncludeLinesB, MaxIncludeLines),
                                                c \in SeqsUpTo(IncludeLinesC, MaxIncludeLines) }
    /\ InitCompiler
    /\ bld = BuildOff
    /\ shp = ShapeOff
    /\ gdp = GlobalsOff

NextInclude ==
    \/ LoadScript("A")
    \/ EnterFile
    \/ CopyLine
    \/ IncludeLine
    \/ ReturnTrue
    \/ \E stringTableFull \in BOOLEAN, staleThrows \in BOOLEAN :
          CompileLines(stringTableFull, staleThrows)

SpecInclude == InitInclude /\ [][NextInclude]_vars

----------------------------------------------------------------------------
(* Specification of compilation: one script file A without includes,       *)
(* holding function definitions, and loadScript calls on it.               *)

LineFunction == << "function", "void", "f", "(", ")" >>
LineFunctionSameParameter == << "function", "void", "g", "(", "int", "a", ",", "int", "a", ")" >>
LineString == << "'s'" >>

CompileLinesA == { LineStatement, LineString, LineFunction, LineFunctionSameParameter,
                   << "{" >>, << "}" >> }

InitCompile ==
    /\ fs \in { [ A |-> a ] : a \in SeqsUpTo(CompileLinesA, MaxCompileLines) }
    /\ InitCompiler
    /\ bld = BuildOff
    /\ shp = ShapeOff
    /\ gdp = GlobalsOff

NextCompile ==
    \/ LoadScript("A")
    \/ EnterFile
    \/ CopyLine
    \/ ReturnTrue
    \/ \E stringTableFull \in BOOLEAN, staleThrows \in BOOLEAN :
          CompileLines(stringTableFull, staleThrows)

SpecCompile == InitCompile /\ [][NextCompile]_vars

----------------------------------------------------------------------------
(* Specification of node building: buildNodesFromCodeLines on a sequence   *)
(* of lines, one line per step.                                            *)

BuildLinesSet == { << >>, << "x" >>, << "{" >>, << "}" >>, << "x", "{" >> }

InitBuild ==
    /\ fs = << >>
    /\ InitCompiler
    /\ bld \in { [ phase |-> "lines", lines |-> ls, state |-> BuildStart ] :
                   ls \in SeqsUpTo(BuildLinesSet, MaxBuildLines) }
    /\ shp = ShapeOff
    /\ gdp = GlobalsOff

\* one iteration of the loop over the lines
BuildNextLine ==
    /\ bld.phase = "lines"
    /\ bld.state.lineNumber < Len(bld.lines)
    /\ \E b \in { BuildLine(bld.state, bld.lines[bld.state.lineNumber + 1], FALSE) } :
           bld' = [ bld EXCEPT !.state = b,
                               !.phase = IF b.exc /= << >> THEN "done" ELSE "lines" ]
    /\ UNCHANGED << loaderVars, shp, gdp >>

\* the end of the loop and the check after it
BuildFinish ==
    /\ bld.phase = "lines"
    /\ bld.state.lineNumber = Len(bld.lines)
    /\ bld' = [ bld EXCEPT !.state = BuildEnd(bld.state), !.phase = "done" ]
    /\ UNCHANGED << loaderVars, shp, gdp >>

NextBuild == BuildNextLine \/ BuildFinish

SpecBuild == InitBuild /\ [][NextBuild]_vars

\* lines with and without string literals
StringLines ==
    { << >>, << "x" >>, << "'s'" >>, << "x", "=", "'s'", "+", "'t'" >>, << "'t'", "'t'" >>,
      << "{" >>, << "}" >>, << "{", "'s'" >>, << "//#p" >> }

InitStrings ==
    /\ fs = << >>
    /\ InitCompiler
    /\ bld \in { [ phase |-> "lines", lines |-> ls, state |-> BuildStart ] :
                   ls \in SeqsUpTo(StringLines, MaxStringLines) }
    /\ shp = ShapeOff
    /\ gdp = GlobalsOff

SpecStrings == InitStrings /\ [][NextBuild]_vars

----------------------------------------------------------------------------
(* Specification of statement shaping: processUndefinedNodesInBlock on a   *)
(* block whose nodes are built from a sequence of lines and blocks.        *)

ShapeItems == { "if", "else if", "else", "statement", "block" }

\* for (int i = 0; i; i)
ForTokens == << "for", "(", "int", "i", "=", "0", ";", "i", ";", "i", ")" >>

\* the node the node builder makes of an item on line i
ItemNode(item, i) ==
    CASE item = "if" ->
           [ Node("UNDEFINED", i) EXCEPT !.tokens = << "if", "(", "a", ")" >> ]
      [] item = "else if" ->
           [ Node("UNDEFINED", i) EXCEPT !.tokens = << "else", "if", "(", "b", ")" >> ]
      [] item = "else" ->
           [ Node("UNDEFINED", i) EXCEPT !.tokens = << "else" >> ]
      [] item = "statement" ->
           [ Node("UNDEFINED", i) EXCEPT !.tokens = << "x", "=", "1" >> ]
      [] item = "block" ->
           [ Node("BLOCK", i) EXCEPT
               !.nodes = << [ Node("UNDEFINED", i) EXCEPT !.tokens = << "x", "=", "1" >> ] >> ]
      [] item = "while" ->
           [ Node("UNDEFINED", i) EXCEPT !.tokens = << "while", "(", "a", ")" >> ]
      [] item = "for" ->
           [ Node("UNDEFINED", i) EXCEPT !.tokens = ForTokens ]
      [] item = "else for" ->
           [ Node("UNDEFINED", i) EXCEPT !.tokens = << "else" >> \o ForTokens ]
      [] item = "use" ->
           [ Node("UNDEFINED", i) EXCEPT !.tokens = << "x", "=", "i" >> ]

ItemBlock(items) ==
    [ Node("BLOCK", 0) EXCEPT !.nodes = [ i \in 1..Len(items) |-> ItemNode(items[i], i) ] ]

InitShape ==
    /\ fs = << >>
    /\ InitCompiler
    /\ bld = BuildOff
    /\ gdp = GlobalsOff
    /\ shp \in { [ phase |-> "block", items |-> items, block |-> ItemBlock(items),
                   scopeContext |-> NewScopeContext, exc |-> << >> ] :
                   items \in SeqsUpTo(ShapeItems, MaxShapeNodes) }

ShapeBlock ==
    /\ shp.phase = "block"
    /\ \E r \in { processUndefinedNodesInBlock(shp.block, shp.scopeContext, registered) } :
           shp' = [ shp EXCEPT !.phase = "done", !.block = r.block,
                               !.scopeContext = r.scopeContext, !.exc = r.exc ]
    /\ UNCHANGED << loaderVars, bld, gdp >>

NextShape == ShapeBlock

SpecShape == InitShape /\ [][NextShape]_vars

----------------------------------------------------------------------------
(* Specification of control statements: processUndefinedNodesInBlock on a  *)
(* block of if, else, while and for lines, statements and blocks.          *)

ControlItems == { "if", "else", "while", "for", "else for", "statement", "block" }

InitControl ==
    /\ fs = << >>
    /\ InitCompiler
    /\ bld = BuildOff
    /\ gdp = GlobalsOff
    /\ shp \in { [ phase |-> "block", items |-> items, block |-> ItemBlock(items),
                   scopeContext |-> NewScopeContext, exc |-> << >> ] :
                   items \in SeqsUpTo(ControlItems, MaxControlNodes) }

SpecControl == InitControl /\ [][NextShape]_vars

----------------------------------------------------------------------------
(* Specification of scopes: processUndefinedNodesInBlock on a block of for *)
(* and if lines, statements and blocks; a "use" is a statement that reads  *)
(* the loop variable of the for lines.                                     *)

ScopeItems == { "if", "for", "else for", "statement", "use", "block" }

InitScope ==
    /\ fs = << >>
    /\ InitCompiler
    /\ bld = BuildOff
    /\ gdp = GlobalsOff
    /\ shp \in { [ phase |-> "block", items |-> items, block |-> ItemBlock(items),
                   scopeContext |-> NewScopeContext, exc |-> << >> ] :
                   items \in SeqsUpTo(ScopeItems, MaxScopeNodes) }

SpecScope == InitScope /\ [][NextShape]_vars

----------------------------------------------------------------------------
(* Specification of top-level definitions: compileLinesToNode and          *)
(* compileLines on the lines of one script file, made of function          *)
(* definitions, global variables, defines, pragma lines, statements and    *)
(* blocks at top level.                                                    *)

\* function void f() { v = d + k }: the body reads a global variable, a define and
\* a function
LinesOfF == << << "function", "void", "f", "(", ")" >>, << "{" >>,
               << "v", "=", "d", "+", "k" >>, << "}" >> >>

\* function int k(int p, int q) { p = q }
LinesOfK == << << "function", "int", "k", "(", "int", "p", ",", "int", "q", ")" >>, << "{" >>,
               << "p", "=", "q" >>, << "}" >> >>

\* function void g(int p, int p) { x }
LinesOfG == << << "function", "void", "g", "(", "int", "p", ",", "int", "p", ")" >>, << "{" >>,
               << "x" >>, << "}" >> >>

\* function void name() { body }
FunctionLines(name, body) ==
    << << "function", "void", name, "(", ")" >>, << "{" >> >> \o body \o << << "}" >> >>

\* the lines of a top-level item
ItemLines(item) ==
    CASE item = "f" -> LinesOfF
      [] item = "k" -> LinesOfK
      [] item = "g" -> LinesOfG
      [] item = "header" -> << << "function", "void", "e", "(", ")" >> >>
      [] item = "global" -> << << "global", "int", "v" >> >>
      [] item = "define" -> << << "define", "int", "d", "=", "1" >> >>
      [] item = "pragma p" -> << << "//#p" >> >>
      [] item = "pragma q" -> << << "//#q" >> >>
      [] item = "statement" -> << << "x" >> >>
      [] item = "block" -> << << "{" >>, << "x" >>, << "}" >> >>
      [] item = "declare y" -> FunctionLines("m", << << "int", "y" >> >>)
      [] item = "use y" -> FunctionLines("n", << << "x", "=", "y" >> >>)
      [] item = "use p" -> FunctionLines("o", << << "x", "=", "p" >> >>)
      [] item = "open i" -> FunctionLines("r", << ForTokens, ForTokens, << "{" >>, << "}" >> >>)
      [] item = "use i" -> FunctionLines("s", << << "x", "=", "i" >> >>)

RECURSIVE ItemsLines(_)
ItemsLines(items) ==
    IF items = << >> THEN << >> ELSE ItemLines(Head(items)) \o ItemsLines(Tail(items))

\* the line number translation of a load of one file without includes
OneFileIntervals == << Interval(1, "A", 0) >>

GlobalsStart(items) ==
    [ phase |-> "lines", items |-> items, lines |-> ItemsLines(items),
      root |-> << >>, g |-> << >>, c |-> << >> ]

\* compileLinesToNode(outNode, lines)
CompileLinesToNode ==
    /\ gdp.phase = "lines"
    /\ \E b \in { buildNodesFromCodeLines(gdp.lines, FALSE) } :
         \E g \in { processGlobalDefinitions(b.root, EmptyModule, << >>, OneFileIntervals, 1) } :
            gdp' = [ gdp EXCEPT !.phase = "defined", !.root = b.root, !.g = g ]
    /\ UNCHANGED << loaderVars, bld, shp >>

\* compileLines(lines), on a Compiler that has compiled nothing before
CompileTopLevel ==
    /\ gdp.phase = "lines"
    /\ \E c \in { compileLines(gdp.lines, EmptyModule, << >>, OneFileIntervals, << >>, 1,
                               FALSE, FALSE) } :
            gdp' = [ gdp EXCEPT !.phase = "compiled", !.c = c ]
    /\ UNCHANGED << loaderVars, bld, shp >>

NextGlobals == CompileLinesToNode \/ CompileTopLevel

GlobalsItems == { "f", "header", "global", "pragma p", "pragma q", "statement", "block" }

InitGlobals ==
    /\ fs = << >>
    /\ InitCompiler
    /\ bld = BuildOff
    /\ shp = ShapeOff
    /\ gdp \in { GlobalsStart(items) : items \in SeqsUpTo(GlobalsItems, MaxTopLevelItems) }

SpecGlobals == InitGlobals /\ [][NextGlobals]_vars

DeclareItems == { "f", "k", "g", "global", "define", "statement" }

InitDeclare ==
    /\ fs = << >>
    /\ InitCompiler
    /\ bld = BuildOff
    /\ shp = ShapeOff
    /\ gdp \in { GlobalsStart(items) : items \in SeqsUpTo(DeclareItems, MaxTopLevelItems) }

SpecDeclare == InitDeclare /\ [][NextGlobals]_vars

\* compilation of a file given by its lines
LinesStart(lines) ==
    [ phase |-> "lines", items |-> << >>, lines |-> lines,
      root |-> << >>, g |-> << >>, c |-> << >> ]

\* the tokens a global declaration is written with
GlobalLineTokens == { "int", "v", "=", "1" }

GlobalLines == { << "global" >> \o t : t \in SeqsUpTo(GlobalLineTokens, MaxGlobalTokens) }

\* what the file declares before its last line
EarlierDeclarations ==
    { << >>,
      << << "global", "int", "v" >> >>,
      << << "global", "void", "w" >> >>,
      << << "define", "int", "v", "=", "1" >> >> }

InitGlobalLine ==
    /\ fs = << >>
    /\ InitCompiler
    /\ bld = BuildOff
    /\ shp = ShapeOff
    /\ gdp \in { LinesStart(Append(e, l)) : e \in EarlierDeclarations, l \in GlobalLines }

SpecGlobalLine == InitGlobalLine /\ [][NextGlobals]_vars

\* the tokens a define is written with
DefineLineTokens == { "int", "d", "=", "1" }

DefineLines == { << "define" >> \o t : t \in SeqsUpTo(DefineLineTokens, MaxDefineTokens) }

InitDefineLine ==
    /\ fs = << >>
    /\ InitCompiler
    /\ bld = BuildOff
    /\ shp = ShapeOff
    /\ gdp \in { LinesStart(<< l >>) : l \in DefineLines }

SpecDefineLine == InitDefineLine /\ [][NextGlobals]_vars

\* what a function header is written with between the keyword and the (
HeaderHeads == { << "void", "f" >>, << "int", "f" >>, << "f" >>, << "void" >>, << >> }

\* what a parameter is written with
ParameterSlots == { << "int", "a" >>, << "int", "b" >>, << "a" >>, << "int" >> }

\* n parameters in a row, with or without a comma between two of them
RECURSIVE ParameterRows(_)
ParameterRows(n) ==
    IF n = 1 THEN ParameterSlots
    ELSE { r \o c \o p : r \in ParameterRows(n - 1), c \in { << "," >>, << >> },
                        p \in ParameterSlots }

ParameterLists == { << >> } \cup UNION { ParameterRows(n) : n \in 1..MaxParameters }

HeaderLines ==
    { << "function" >> \o h \o open \o l \o comma \o close \o extra :
        h \in HeaderHeads, open \in { << "(" >>, << >> }, l \in ParameterLists,
        comma \in { << >>, << "," >> }, close \in { << ")" >>, << >> },
        extra \in { << >>, << "a" >>, << ")" >> } }

InitHeaderLine ==
    /\ fs = << >>
    /\ InitCompiler
    /\ bld = BuildOff
    /\ shp = ShapeOff
    /\ gdp \in { LinesStart(<< l, << "{" >>, << "}" >> >>) : l \in HeaderLines }

SpecHeaderLine == InitHeaderLine /\ [][NextGlobals]_vars

FunctionItems == { "k", "declare y", "use y", "use p", "open i", "use i" }

\* files of different functions: no signature is declared twice
DifferentFunctions ==
    { items \in SeqsUpTo(FunctionItems, MaxFunctions) :
        \A i, j \in 1..Len(items) : items[i] = items[j] => i = j }

InitFunctions ==
    /\ fs = << >>
    /\ InitCompiler
    /\ bld = BuildOff
    /\ shp = ShapeOff
    /\ gdp \in { GlobalsStart(items) : items \in DifferentFunctions }

SpecFunctions == InitFunctions /\ [][NextGlobals]_vars

----------------------------------------------------------------------------
(* Properties of script loading and line number translation *)

\* the flattened line the exception caught by compileLines was raised at
ErrorLine == lastExc[1].line

\* C1: a compile error raised at a flattened line that comes from line k (1-based) of
\* file F is reported with filename F and line number k
CompileErrorReportsOrigin ==
    (pc = "done" /\ lastExc /= << >> /\ ErrorLine \in 1..Len(outLines))
        => /\ Last(mErrors).mFilename = outLines[ErrorLine].file
           /\ Last(mErrors).mLineNumber = ToU32(outLines[ErrorLine].k)

\* C2: after a loadScript that returned false, no function, global variable or define
\* declared in that load is registered
FailedLoadRegistersNothing ==
    (pc = "done" /\ ~result)
        => /\ \A i \in 1..Len(registered.functions) : registered.functions[i].load /= loads
           /\ \A i \in 1..Len(registered.globals) : registered.globals[i].load /= loads
           /\ \A i \in 1..Len(registered.defines) : registered.defines[i].load /= loads

\* C5: no file is loaded at a nesting depth at or beyond the ceiling; a call at the
\* ceiling records one error and loads nothing; a failed load returns false with that
\* one error; loading always comes to its end
LoadingStopsAtDepthCeiling ==
    /\ [](Len(stack) < MaxInclusionDepth)
    /\ [][(pc = "call" /\ Len(stack) + 1 >= MaxInclusionDepth)
            => (pc' = "fail" /\ Len(mErrors') = 1 /\ stack' = stack /\ outLines' = outLines)]_vars
    /\ (pc = "fail") ~> (pc = "done" /\ ~result /\ Len(mErrors) = 1)
    /\ (pc \in { "call", "lines" }) ~> (pc \in { "compile", "done" })

DepthCeilingReached ==
    pc = "fail" /\ Len(stack) = MaxInclusionDepth - 1 /\ Len(mErrors) = 1

\* the result the interval at index i gives for line L
ResultFrom(i, L) ==
    [ first |-> ToU32(L - mIntervals[i].mStartLineNumber + mIntervals[i].mLineOffsetInFile),
      second |-> mIntervals[i].mFilename ]

\* C6: translateLineNumber(L) selects the last interval whose start line is <= L and
\* returns (L - start + lineOffsetInFile, filename) of it
TranslateSelectsLastIntervalAtOrBefore ==
    \A L \in 1..(Len(outLines) + 1) : \A i \in 1..Len(mIntervals) :
        ( /\ mIntervals[i].mStartLineNumber <= L
          /\ \A j \in (i + 1)..Len(mIntervals) : mIntervals[j].mStartLineNumber > L )
        => translateLineNumber(mIntervals, ToU32(L)) = ResultFrom(i, L)

\* C7: the intervals have strictly increasing start lines, the first one starts at
\* line 1 and every flattened output line is covered by an interval
IntervalsIncreaseAndCover ==
    /\ mIntervals /= << >> => mIntervals[1].mStartLineNumber = 1
    /\ \A i \in 1..(Len(mIntervals) - 1) :
          mIntervals[i].mStartLineNumber < mIntervals[i + 1].mStartLineNumber
    /\ \A L \in 1..Len(outLines) :
          \E i \in 1..Len(mIntervals) : mIntervals[i].mStartLineNumber <= L

\* the push made last: the list before it and the interval pushed
Pushed == Interval(lastPush[1].line, lastPush[1].filename, lastPush[1].offset)

PushedOnLastStart ==
    /\ lastPush[1].before /= << >>
    /\ Last(lastPush[1].before).mStartLineNumber = lastPush[1].line

\* C8: push(L, f, o) appends (L, f, o) unless the last interval starts at L, then it
\* overwrites the last interval; the earlier intervals stay as they are
PushAppendsOrOverwritesLast ==
    lastPush /= << >> =>
        LET before == lastPush[1].before
            kept == IF PushedOnLastStart THEN Len(before) - 1 ELSE Len(before)
        IN  /\ Len(mIntervals) = kept + 1
            /\ Last(mIntervals) = Pushed
            /\ \A i \in 1..kept : mIntervals[i] = before[i]

PushOverwroteLast ==
    /\ lastPush /= << >>
    /\ PushedOnLastStart
    /\ Last(lastPush[1].before) /= Pushed
    /\ Last(mIntervals) = Pushed

\* C9: a loadScript that returned false left exactly one diagnostic, one that returned
\* true left none; once an error is recorded, nothing is loaded, registered or recorded
\* any more before loadScript returns
OneDiagnosticExactlyOnFailure ==
    /\ [](pc = "done" => IF result THEN mErrors = << >> ELSE Len(mErrors) = 1)
    /\ [][(mErrors /= << >> /\ pc /= "done")
            => /\ mErrors' = mErrors
               /\ outLines' = outLines
               /\ mIntervals' = mIntervals
               /\ registered' = registered
               /\ Len(stack') <= Len(stack)
               /\ pc' \in { "fail", "done" }]_vars

FailedWithCompilerException ==
    pc = "done" /\ ~result /\ lastExc /= << >> /\ Len(mErrors) = 1 /\ loads = 2

\* C10: every diagnostic record carries a line number >= 1 and the name of a file
DiagnosticsCarryLineAndFile ==
    \A i \in 1..Len(mErrors) :
        /\ U32Less(ToU32(0), mErrors[i].mLineNumber)
        /\ mErrors[i].mFilename /= ""

----------------------------------------------------------------------------
(* Properties of node building *)

RECURSIVE Flatten(_)
Flatten(lines) == IF lines = << >> THEN << >> ELSE Head(lines) \o Flatten(Tail(lines))

\* number of "{" minus number of "}" in a token sequence
RECURSIVE BraceDepth(_)
BraceDepth(tokens) ==
    IF tokens = << >> THEN 0
    ELSE BraceDepth(Front(tokens))
         + (IF Last(tokens) = "{" THEN 1 ELSE IF Last(tokens) = "}" THEN -1 ELSE 0)

BalancedTokens(tokens) ==
    /\ BraceDepth(tokens) = 0
    /\ \A n \in 0..Len(tokens) : BraceDepth(SubSeq(tokens, 1, n)) >= 0

Without(tokens, p) == SubSeq(tokens, 1, p - 1) \o SubSeq(tokens, p + 1, Len(tokens))

\* a balanced input with one more token of the given kind
OneExtra(tokens, brace) ==
    \E p \in 1..Len(tokens) : tokens[p] = brace /\ BalancedTokens(Without(tokens, p))

\* every curly brace is the only token of its line
BracesAlone(lines) ==
    \A i \in 1..Len(lines) : \A j \in 1..Len(lines[i]) :
        lines[i][j] \in { "{", "}" } => Len(lines[i]) = 1

\* the first line that closes more blocks than are open
OffendingLine(lines) ==
    CHOOSE n \in 1..Len(lines) :
        /\ BraceDepth(Flatten(SubSeq(lines, 1, n))) < 0
        /\ \A m \in 1..(n - 1) : BraceDepth(Flatten(SubSeq(lines, 1, m))) >= 0

StructuralErrors == { "Closed too many blocks", "More blocks opened than closed" }

BuildOutcome(lines, exc) ==
    /\ BalancedTokens(Flatten(lines))
         => (exc = << >> \/ exc[1].msg \notin StructuralErrors)
    /\ OneExtra(Flatten(lines), "{")
         => exc = Exception("More blocks opened than closed", Len(lines))
    /\ OneExtra(Flatten(lines), "}")
         => exc = Exception("Closed too many blocks", OffendingLine(lines))

\* C3, as stated: for every input with balanced curly braces no structural error is
\* raised; with one extra brace exactly one structural error is raised
BalancedInputsBuild ==
    bld.phase = "done" => BuildOutcome(bld.lines, bld.state.exc)

\* C3, amended: the same for every input in which each curly brace is the only token
\* of its line
BalancedBraceLinesBuild ==
    (bld.phase = "done" /\ BracesAlone(bld.lines))
        => BuildOutcome(bld.lines, bld.state.exc)

ExtraBraceRejected ==
    /\ bld.phase = "done"
    /\ BracesAlone(bld.lines)
    /\ OneExtra(Flatten(bld.lines), "{")
    /\ Len(bld.lines) >= 3
    /\ bld.state.exc = Exception("More blocks opened than closed", Len(bld.lines))

----------------------------------------------------------------------------
(* Properties of statement shaping *)

IsBody(item) == item \in { "statement", "block" }

\* if, body, else if, body, else, body
IsIfElseChain(items) ==
    /\ Len(items) = 6
    /\ items[1] = "if" /\ IsBody(items[2])
    /\ items[3] = "else if" /\ IsBody(items[4])
    /\ items[5] = "else" /\ IsBody(items[6])

\* the pointer holds the body made of the item on line i, in its shaped form
HoldsBody(pointer, item, i) ==
    /\ Len(pointer) = 1
    /\ pointer[1].line = i
    /\ IF item = "block"
       THEN /\ pointer[1].type = "BLOCK"
            /\ Len(pointer[1].nodes) = 1
            /\ pointer[1].nodes[1].type = "STATEMENT"
       ELSE pointer[1].type = "STATEMENT"

\* C4: an if / else-if / else chain becomes one if node whose else content is an if
\* node that owns the second body as then-content and the third as else-content
IfElseChainIsNested ==
    (shp.phase = "done" /\ IsIfElseChain(shp.items))
        => /\ shp.exc = << >>
           /\ Len(shp.block.nodes) = 1
           /\ LET outer == shp.block.nodes[1]
              IN  /\ outer.type = "IF_STATEMENT"
                  /\ outer.line = 1
                  /\ HoldsBody(outer.contentIf, shp.items[2], 2)
                  /\ Len(outer.contentElse) = 1
                  /\ LET inner == outer.contentElse[1]
                     IN  /\ inner.type = "IF_STATEMENT"
                         /\ inner.line = 3
                         /\ HoldsBody(inner.contentIf, shp.items[4], 4)
                         /\ HoldsBody(inner.contentElse, shp.items[6], 6)

IfElseChainShaped ==
    /\ shp.phase = "done"
    /\ IsIfElseChain(shp.items)
    /\ shp.items[2] = "block" /\ shp.items[4] = "statement"
    /\ shp.exc = << >>
    /\ Len(shp.block.nodes) = 1

----------------------------------------------------------------------------
(* Properties of control statements.  The lines of a block are read by the *)
(* grammar   statement ::= body | while statement | for statement          *)
(*                       | if statement [ else statement ]                 *)
(* where a line "else for (...)" is an else followed by a for.             *)

RECURSIVE Kinds(_, _)
\* the keywords of the lines from line i on, each with its line
Kinds(items, i) ==
    IF i > Len(items) THEN << >>
    ELSE (CASE items[i] \in { "if", "else", "while", "for" } ->
                 << [ kind |-> items[i], line |-> i ] >>
            [] items[i] = "else for" ->
                 << [ kind |-> "else", line |-> i ], [ kind |-> "for", line |-> i ] >>
            [] items[i] = "else if" ->
                 << [ kind |-> "else", line |-> i ], [ kind |-> "if", line |-> i ] >>
            [] OTHER -> << [ kind |-> "body", line |-> i ] >>)
         \o Kinds(items, i + 1)

RECURSIVE StatementEnd(_, _)

\* t is where the then-body of an if ends: an else there belongs to that if
AfterThen(kinds, t) ==
    IF t.error /= "" THEN t
    ELSE IF t.at <= Len(kinds) /\ kinds[t.at].kind = "else"
    THEN [ StatementEnd(kinds, t.at + 1) EXCEPT !.hasElse = TRUE ]
    ELSE [ t EXCEPT !.hasElse = FALSE ]

\* the statement that starts at position k ends before position at; error tells
\* what is wrong at position at: an else that no if is waiting for ("else"), or
\* the end of the block where a body has to follow ("end")
StatementEnd(kinds, k) ==
    IF k > Len(kinds) THEN [ error |-> "end", at |-> k, hasElse |-> FALSE ]
    ELSE CASE kinds[k].kind = "else" -> [ error |-> "else", at |-> k, hasElse |-> FALSE ]
           [] kinds[k].kind \in { "while", "for" } ->
                [ StatementEnd(kinds, k + 1) EXCEPT !.hasElse = FALSE ]
           [] kinds[k].kind = "if" -> AfterThen(kinds, StatementEnd(kinds, k + 1))
           [] OTHER -> [ error |-> "", at |-> k + 1, hasElse |-> FALSE ]

RECURSIVE BlockEnd(_, _, _)

\* r is the first statement of the block from position k on; starts collects the
\* positions the statements of the block start at
BlockNext(kinds, starts, r) ==
    IF r.error /= "" THEN [ error |-> r.error, at |-> r.at, starts |-> starts ]
    ELSE BlockEnd(kinds, r.at, starts)

BlockEnd(kinds, k, starts) ==
    IF k > Len(kinds) THEN [ error |-> "", at |-> k, starts |-> starts ]
    ELSE BlockNext(kinds, Append(starts, k), StatementEnd(kinds, k))

\* the block made of the items, read by the grammar
Grammar(items) == BlockEnd(Kinds(items, 1), 1, << >>)

\* the first else that no if is waiting for is on line
MisplacedElseLine(items, g) == Kinds(items, 1)[g.at].line

ElseRaisedFor(g) ==
    g.error = "else"
        => shp.exc = Exception("Else in wrong location", MisplacedElseLine(shp.items, g))

\* C11: an else that is not directly preceded by an if with its then-body raises
\* "Else in wrong location", on the line of that else
MisplacedElseRaisesError ==
    shp.phase = "done" => ElseRaisedFor(Grammar(shp.items))

\* a second else after an if that consumed one
SecondElseRejected ==
    /\ shp.phase = "done"
    /\ shp.items = << "if", "statement", "else", "statement", "else" >>
    /\ shp.exc = Exception("Else in wrong location", 5)

\* the node is a statement or a block, and holds no statement of its own
IsBodyNode(node) ==
    /\ node.type \in { "STATEMENT", "BLOCK" }
    /\ node.content = << >> /\ node.contentIf = << >> /\ node.contentElse = << >>
    /\ node.type = "BLOCK" => \A j \in 1..Len(node.nodes) : node.nodes[j].type = "STATEMENT"

\* the node is a while or for node that holds a body and nothing else
IsLoopNode(node, kind) ==
    /\ node.type = (IF kind = "while" THEN "WHILE_STATEMENT" ELSE "FOR_STATEMENT")
    /\ Len(node.content) = 1 /\ node.contentIf = << >> /\ node.contentElse = << >>

RECURSIVE Conforms(_, _, _)

\* the then-body of the if node ends before position e of the grammar (0: it does
\* not conform): the node holds an else-body exactly when an else is at e
ConformsElse(node, kinds, e) ==
    IF e = 0 THEN 0
    ELSE IF e <= Len(kinds) /\ kinds[e].kind = "else"
    THEN IF Len(node.contentElse) = 1 THEN Conforms(node.contentElse[1], kinds, e + 1) ELSE 0
    ELSE IF node.contentElse = << >> THEN e ELSE 0

\* the node is the statement the grammar reads from position k on: yields the
\* position the statement ends before, 0 if the node is not that statement
Conforms(node, kinds, k) ==
    IF k > Len(kinds) \/ node.line /= kinds[k].line THEN 0
    ELSE CASE kinds[k].kind = "body" -> IF IsBodyNode(node) THEN k + 1 ELSE 0
           [] kinds[k].kind \in { "while", "for" } ->
                IF IsLoopNode(node, kinds[k].kind)
                THEN Conforms(node.content[1], kinds, k + 1) ELSE 0
           [] kinds[k].kind = "if" ->
                IF node.type = "IF_STATEMENT" /\ Len(node.contentIf) = 1 /\ node.content = << >>
                THEN ConformsElse(node, kinds, Conforms(node.contentIf[1], kinds, k + 1))
                ELSE 0
           [] OTHER -> 0

RECURSIVE ConformsAll(_, _, _, _)

\* node j ends before position e
ConformsNext(nodes, j, kinds, e) == e /= 0 /\ ConformsAll(nodes, j + 1, kinds, e)

\* the nodes from node j on are, in this order, the statements the grammar reads
\* from position k on, up to the end of the block
ConformsAll(nodes, j, kinds, k) ==
    IF j > Len(nodes) THEN k = Len(kinds) + 1
    ELSE ConformsNext(nodes, j, kinds, Conforms(nodes[j], kinds, k))

\* C12: in a block shaped without error every while and for node holds the one
\* statement that follows it, every if node its then-body and, exactly when an else
\* follows that, the else-body; no else node is left, the statements keep their
\* order; a block that ends where a body has to follow is an error
ControlNodesHoldTheirBodies ==
    shp.phase = "done"
        => /\ shp.exc = << >>
                => ConformsAll(shp.block.nodes, 1, Kinds(shp.items, 1), 1)
           /\ Grammar(shp.items).error = "end" => shp.exc /= << >>

IfForElseShaped ==
    /\ shp.phase = "done"
    /\ shp.items = << "if", "for", "statement", "else", "block" >>
    /\ shp.exc = << >>
    /\ Len(shp.block.nodes) = 1
    /\ shp.block.nodes[1].contentIf[1].type = "FOR_STATEMENT"
    /\ shp.block.nodes[1].contentElse[1].type = "BLOCK"

----------------------------------------------------------------------------
(* Properties of scopes *)

\* the line is a for line, or a for line written after else
IsForLine(item) == item \in { "for", "else for" }

\* the statement on line k is the body node of a for line
IsForBody(items, k) == k > 1 /\ IsForLine(items[k - 1])

\* the first loop came to line k: it raised no exception on a line before
LineProcessed(k) ==
    \/ shp.exc = << >>
    \/ shp.exc[1].msg /= "Unable to resolve identifier"
    \/ shp.exc[1].line >= k

\* the loop variable could be resolved on line k
ResolvedOnLine(k) == shp.exc /= Exception("Unable to resolve identifier", k)

\* C13: the variable declared in the init clause of a for is visible in the
\* condition and iteration clauses and in the body node of that for, and is not
\* visible to the statements after the body node, wherever the for is placed
ForScopeCoversHeaderAndBody ==
    (shp.phase = "done" /\ Grammar(shp.items).error = "")
        => \A k \in 1..Len(shp.items) :
              LineProcessed(k)
                  => /\ IsForLine(shp.items[k]) => ResolvedOnLine(k)
                     /\ shp.items[k] = "use"
                          => (IsForBody(shp.items, k) <=> ResolvedOnLine(k))

\* C14: a block processed without error leaves as many open scopes and the same
\* visible local variables as it found
ScopesBalancedPerBlock ==
    (shp.phase = "done" /\ shp.exc = << >>) => shp.scopeContext = NewScopeContext

----------------------------------------------------------------------------
(* Properties of the global definitions pass *)

\* the file declares the same global variable twice
DeclaresGlobalTwice(items) ==
    \E i, j \in 1..Len(items) : i < j /\ items[i] = "global" /\ items[j] = "global"

IsFunctionHeader(node) == node.type = "UNDEFINED" /\ node.tokens[1] = "function"

\* the function headers that no block follows
HeadersWithoutBlock(nodes) ==
    { i \in 1..Len(nodes) :
        /\ IsFunctionHeader(nodes[i])
        /\ i = Len(nodes) \/ nodes[i + 1].type /= "BLOCK" }

\* what is looked at of a top-level node
Outline(node) == [ type |-> node.type, line |-> node.line, content |-> node.content ]

RECURSIVE ExpectedOutline(_, _)
\* the top-level nodes from node i on, each header and its block made one function node
ExpectedOutline(nodes, i) ==
    IF i > Len(nodes) THEN << >>
    ELSE IF IsFunctionHeader(nodes[i])
    THEN << [ type |-> "FUNCTION", line |-> nodes[i].line, content |-> << nodes[i + 1] >> ] >>
         \o ExpectedOutline(nodes, i + 2)
    ELSE << Outline(nodes[i]) >> \o ExpectedOutline(nodes, i + 1)

\* the exception for the first of the headers without block
MissingBlockException(nodes, i) ==
    Exception(IF i = Len(nodes) THEN "Function definition as last node is not allowed"
              ELSE "Expected block node after function header", nodes[i].line)

FirstOf(S) == CHOOSE i \in S : \A j \in S : i <= j

\* C15: a function header that no block follows is an error; otherwise every header
\* and its block become one function node at the place of the header, holding the
\* block, and the other top-level nodes stay as they are, in their order
FunctionNodesReplaceHeaderAndBlock ==
    (gdp.phase = "defined" /\ ~DeclaresGlobalTwice(gdp.items))
        => IF HeadersWithoutBlock(gdp.root.nodes) /= {}
           THEN gdp.g.exc = MissingBlockException(gdp.root.nodes,
                                                  FirstOf(HeadersWithoutBlock(gdp.root.nodes)))
           ELSE /\ gdp.g.exc = << >>
                /\ [ j \in 1..Len(gdp.g.nodes) |-> Outline(gdp.g.nodes[j]) ]
                       = ExpectedOutline(gdp.root.nodes, 1)

FunctionBetweenOtherNodes ==
    /\ gdp.phase = "defined"
    /\ gdp.items = << "statement", "f", "global" >>
    /\ gdp.g.exc = << >>
    /\ Len(gdp.root.nodes) = 4
    /\ Len(gdp.g.nodes) = 3
    /\ gdp.g.nodes[2].type = "FUNCTION"
    /\ gdp.g.nodes[2].content = << gdp.root.nodes[3] >>

\* the positions of the function headers, in their order
HeaderPositions(nodes) ==
    SelectSeq([ i \in 1..Len(nodes) |-> i ], LAMBDA i : IsFunctionHeader(nodes[i]))

RECURSIVE PragmasBefore(_, _)
\* the contents of the pragma nodes at or before node i that no Undefined node
\* separates from the node after i, in source order
PragmasBefore(nodes, i) ==
    IF i = 0 \/ nodes[i].type = "UNDEFINED" THEN << >>
    ELSE PragmasBefore(nodes, i - 1)
         \o (IF nodes[i].type = "PRAGMA" THEN << nodes[i].pragma >> ELSE << >>)

\* C19: the pragmas of a function are the contents, in source order, of the pragma
\* nodes before its header that no Undefined node separates from it; pragma nodes
\* that an Undefined node follows first belong to no function
PragmasBoundToNextFunction ==
    (gdp.phase = "defined" /\ gdp.g.exc = << >>)
        => /\ Len(gdp.g.module.functions) = Len(HeaderPositions(gdp.root.nodes))
           /\ \A k \in 1..Len(gdp.g.module.functions) :
                 gdp.g.module.functions[k].pragmas
                     = PragmasBefore(gdp.root.nodes, HeaderPositions(gdp.root.nodes)[k] - 1)

PragmaAfterStatementBound ==
    /\ gdp.phase = "defined"
    /\ gdp.items = << "pragma q", "statement", "pragma p", "f" >>
    /\ gdp.g.exc = << >>
    /\ gdp.g.module.functions[1].pragmas = << "//#p" >>

----------------------------------------------------------------------------
(* Properties of the registered declarations *)

\* the local variables of the function start with its parameters, in their order
StartsWithParameters(function) ==
    /\ Len(function.locals) >= Len(function.parameters)
    /\ SubSeq(function.locals, 1, Len(function.parameters)) = function.parameters

\* a header names two parameters alike
HasSameNamedParameters(items) == \E i \in 1..Len(items) : items[i] = "g"

\* C16: the local variables of every registered function start with its parameters
\* in declaration order; a header with two parameters of the same name is rejected
ParametersAreFirstLocals ==
    gdp.phase = "compiled"
        => /\ \A k \in 1..Len(gdp.c.module.functions) :
                 StartsWithParameters(gdp.c.module.functions[k])
           /\ HasSameNamedParameters(gdp.items)
                 => /\ ~gdp.c.success
                    /\ gdp.c.errors /= << >>

Holds(items, item) == \E i \in 1..Len(items) : items[i] = item

\* the flattened line of the body of the first function f
BodyLineOfF(items) ==
    Len(ItemsLines(SubSeq(items, 1, FirstOf({ i \in 1..Len(items) : items[i] = "f" }) - 1))) + 3

\* C17: the functions, global variables and defines declared anywhere at top level
\* are registered before a function body is processed: the body of f resolves v, d
\* and k when they are declared somewhere in the file, before or after f, and only then
ForwardReferencesResolve ==
    (gdp.phase = "compiled" /\ ~HasSameNamedParameters(gdp.items)
        /\ ~DeclaresGlobalTwice(gdp.items) /\ Holds(gdp.items, "f"))
        => IF Holds(gdp.items, "global") /\ Holds(gdp.items, "define") /\ Holds(gdp.items, "k")
           THEN /\ gdp.c.success
                /\ IsRegistered("v", gdp.c.module)
                /\ IsRegistered("d", gdp.c.module)
                /\ IsRegistered("k", gdp.c.module)
           ELSE gdp.c.exc = Exception("Unable to resolve identifier", BodyLineOfF(gdp.items))

DeclaredAfterUse ==
    /\ gdp.phase = "compiled"
    /\ gdp.items = << "f", "global", "define", "k" >>
    /\ gdp.c.success
    /\ Len(gdp.c.module.functions) = 2

\* C18: a statement at top level, outside every function, makes the compilation fail
TopLevelStatementFails ==
    (gdp.phase = "compiled" /\ Holds(gdp.items, "statement"))
        => /\ ~gdp.c.success
           /\ gdp.c.errors /= << >>

----------------------------------------------------------------------------
(* Properties of pragmas in front of declarations *)

IsGlobalDeclaration(node) == node.type = "UNDEFINED" /\ node.tokens[1] = "global"

\* the positions of the global declarations, in their order
GlobalPositions(nodes) ==
    SelectSeq([ i \in 1..Len(nodes) |-> i ], LAMBDA i : IsGlobalDeclaration(nodes[i]))

\* the pragma content is written in the global variable
HeldByVariable(variable, pragma) ==
    pragma \in { variable.name, variable.dataType, variable.mInitialValue }

\* the lines with line n made empty
WithoutLine(lines, n) == [ lines EXCEPT ![n] = << >> ]

\* the module the global definitions pass registers for the lines
ModuleOf(lines) ==
    processGlobalDefinitions(buildNodesFromCodeLines(lines, FALSE).root,
                             EmptyModule, << >>, OneFileIntervals, 1).module

\* a pragma directly in front of a declaration is attached to that declaration,
\* function or global variable
PragmaAttachedToFollowingDeclaration ==
    (gdp.phase = "defined" /\ gdp.g.exc = << >>)
        => \A i \in 1..(Len(gdp.root.nodes) - 1) :
              gdp.root.nodes[i].type = "PRAGMA"
                  => /\ IsFunctionHeader(gdp.root.nodes[i + 1])
                          => \E k \in 1..Len(gdp.g.module.functions) :
                                /\ HeaderPositions(gdp.root.nodes)[k] = i + 1
                                /\ gdp.g.module.functions[k].pragmas /= << >>
                                /\ Last(gdp.g.module.functions[k].pragmas)
                                       = gdp.root.nodes[i].pragma
                     /\ IsGlobalDeclaration(gdp.root.nodes[i + 1])
                          => \E k \in 1..Len(gdp.g.module.globals) :
                                /\ GlobalPositions(gdp.root.nodes)[k] = i + 1
                                /\ HeldByVariable(gdp.g.module.globals[k],
                                                  gdp.root.nodes[i].pragma)

\* C20: a pragma directly in front of a function header is the last pragma of that
\* function, verbatim; a pragma directly in front of a global declaration is attached
\* to nothing: the pass registers what it registers for the same lines without it
PragmasAttachToFunctionsOnly ==
    (gdp.phase = "defined" /\ gdp.g.exc = << >>)
        => \A i \in 1..(Len(gdp.root.nodes) - 1) :
              gdp.root.nodes[i].type = "PRAGMA"
                  => /\ IsFunctionHeader(gdp.root.nodes[i + 1])
                          => \E k \in 1..Len(gdp.g.module.functions) :
                                /\ HeaderPositions(gdp.root.nodes)[k] = i + 1
                                /\ gdp.g.module.functions[k].pragmas /= << >>
                                /\ Last(gdp.g.module.functions[k].pragmas)
                                       = gdp.root.nodes[i].pragma
                     /\ IsGlobalDeclaration(gdp.root.nodes[i + 1])
                          => ModuleOf(WithoutLine(gdp.lines, gdp.root.nodes[i].line))
                                 = gdp.g.module

PragmaBeforeGlobalDropped ==
    /\ gdp.phase = "defined"
    /\ gdp.items = << "pragma p", "global", "pragma q", "f" >>
    /\ gdp.g.exc = << >>
    /\ gdp.g.module.globals[1].name = "v"
    /\ gdp.g.module.functions[1].pragmas = << "//#q" >>

----------------------------------------------------------------------------
(* Properties of global declarations *)

\* the last line of the file and the lines before it
DeclarationLine == Last(gdp.lines)

EarlierLines == Front(gdp.lines)

\* the tokens after the first n tokens of the line
TokensAfter(tokens, n) == SubSeq(tokens, n + 1, Len(tokens))

\* the line is the keyword global, a type and an identifier, and then any tokens
HasTypeAndIdentifier(tokens) ==
    /\ Len(tokens) >= 3
    /\ TokenType(tokens[2]) = "VARTYPE"
    /\ TokenType(tokens[3]) = "IDENTIFIER"

\* the name is declared by an earlier line of the file
DeclaredEarlier(name) == \E i \in 1..Len(EarlierLines) : EarlierLines[i][3] = name

\* the tokens are = and one constant
IsConstantInitializer(tail) ==
    Len(tail) = 2 /\ tail[1] = "=" /\ TokenType(tail[2]) = "CONSTANT"

\* the global variables registered for the last line of the file
RegisteredByLine ==
    TokensAfter(gdp.g.module.globals, Len(ModuleOf(EarlierLines).globals))

\* C21: a global line with a type and an identifier registers exactly one global
\* variable of that type under that name; followed by = and a constant, the initial
\* value of the variable is that constant; = followed by tokens that are not one
\* single constant is an error; a name already used at module scope is an error
GlobalLineRegistersOneVariable ==
    (gdp.phase = "defined" /\ HasTypeAndIdentifier(DeclarationLine))
        => IF DeclaredEarlier(DeclarationLine[3])
           THEN /\ gdp.g.exc /= << >>
                /\ RegisteredByLine = << >>
           ELSE /\ Len(RegisteredByLine) = 1
                /\ RegisteredByLine[1].name = DeclarationLine[3]
                /\ RegisteredByLine[1].dataType = DeclarationLine[2]
                /\ IsConstantInitializer(TokensAfter(DeclarationLine, 3))
                      => /\ gdp.g.exc = << >>
                         /\ RegisteredByLine[1].mInitialValue = DeclarationLine[5]
                /\ ( /\ Len(DeclarationLine) >= 5
                     /\ DeclarationLine[4] = "="
                     /\ ~IsConstantInitializer(TokensAfter(DeclarationLine, 3)) )
                      => gdp.g.exc
                           = Exception("Expected a constant value for initializing the global variable",
                                       Len(gdp.lines))

InitializedGlobalAfterGlobal ==
    /\ gdp.phase = "defined"
    /\ gdp.lines = << << "global", "void", "w" >>, << "global", "int", "v", "=", "1" >> >>
    /\ gdp.g.exc = << >>
    /\ Len(gdp.g.module.globals) = 2
    /\ gdp.g.module.globals[2].mInitialValue = "1"

\* C30: a global declaration is accepted only if the tokens after the identifier are
\* absent or exactly = and one constant; every other trailing token sequence is an error
TrailingTokensRejected ==
    (gdp.phase = "defined" /\ HasTypeAndIdentifier(DeclarationLine)
        /\ ~DeclaredEarlier(DeclarationLine[3]))
        => (gdp.g.exc = << >>
               <=> \/ TokensAfter(DeclarationLine, 3) = << >>
                   \/ IsConstantInitializer(TokensAfter(DeclarationLine, 3)))

----------------------------------------------------------------------------
(* Properties of defines *)

\* the line names a type after the keyword
HasLeadingType(tokens) == Len(tokens) >= 2 /\ TokenType(tokens[2]) = "VARTYPE"

\* where the identifier of the define is expected
IdentifierPosition(tokens) == IF HasLeadingType(tokens) THEN 3 ELSE 2

\* the line is the keyword define, an optional type, an identifier, = and at least
\* one content token
IsDefineLine(tokens) ==
    /\ Len(tokens) >= IdentifierPosition(tokens) + 2
    /\ TokenType(tokens[IdentifierPosition(tokens)]) = "IDENTIFIER"
    /\ tokens[IdentifierPosition(tokens) + 1] = "="

\* the tokens after =
DefineContent(tokens) == TokensAfter(tokens, IdentifierPosition(tokens) + 1)

\* the pass registered one define with the name of the line and the tokens after =
DefineStored(tokens) ==
    /\ Len(gdp.g.module.defines) = 1
    /\ gdp.g.module.defines[1].name = tokens[IdentifierPosition(tokens)]
    /\ gdp.g.module.defines[1].mContent = DefineContent(tokens)

\* a define line is accepted whenever it is an optional type, an identifier, = and
\* at least one content token, and then stores the tokens after =; every other
\* define line is an error
DefineAcceptedForAnyContent ==
    gdp.phase = "defined"
        => /\ gdp.g.exc = << >> <=> IsDefineLine(DeclarationLine)
           /\ IsDefineLine(DeclarationLine) => DefineStored(DeclarationLine)

\* the data type of the define is known: named in front, or the first content token
HasDataType(tokens) ==
    HasLeadingType(tokens) \/ TokenType(DefineContent(tokens)[1]) = "VARTYPE"

\* C22: a define line is accepted whenever it is an optional type, an identifier, =
\* and at least one content token, and without a leading type the first content token
\* is a type; the define then stores the tokens after = in their order, and its type
\* is the leading type or else the first content token; every other define line is an
\* error, and nothing is stored
DefineAcceptedWithDataType ==
    gdp.phase = "defined"
        => IF IsDefineLine(DeclarationLine) /\ HasDataType(DeclarationLine)
           THEN /\ gdp.g.exc = << >>
                /\ DefineStored(DeclarationLine)
                /\ gdp.g.module.defines[1].dataType
                      = IF HasLeadingType(DeclarationLine) THEN DeclarationLine[2]
                        ELSE DefineContent(DeclarationLine)[1]
           ELSE /\ gdp.g.exc /= << >>
                /\ gdp.g.module.defines = << >>
                /\ IsDefineLine(DeclarationLine)
                      => gdp.g.exc = Exception("Data type of define could not be determined", 1)

UntypedDefineStored ==
    /\ gdp.phase = "defined"
    /\ gdp.lines = << << "define", "d", "=", "int", "1", "d" >> >>
    /\ gdp.g.exc = << >>
    /\ gdp.g.module.defines[1].mContent = << "int", "1", "d" >>

----------------------------------------------------------------------------
(* Properties of function headers *)

\* the header line of the file
HeaderLine == gdp.lines[1]

RECURSIVE IsParameterList(_, _)
\* from token i on the line is <type> <ident> {, <type> <ident>} ) and nothing more
IsParameterList(tokens, i) ==
    /\ Len(tokens) >= i + 2
    /\ TokenType(tokens[i]) = "VARTYPE"
    /\ TokenType(tokens[i + 1]) = "IDENTIFIER"
    /\ \/ tokens[i + 2] = ")" /\ Len(tokens) = i + 2
       \/ tokens[i + 2] = "," /\ IsParameterList(tokens, i + 3)

\* function <type> <name> ( ) or function <type> <name> ( <type> <ident> {, <type> <ident>} )
IsHeaderForm(tokens) ==
    /\ Len(tokens) >= 5
    /\ TokenType(tokens[2]) = "VARTYPE"
    /\ TokenType(tokens[3]) = "IDENTIFIER"
    /\ tokens[4] = "("
    /\ \/ tokens[5] = ")" /\ Len(tokens) = 5
       \/ IsParameterList(tokens, 5)

RECURSIVE ParametersWritten(_, _)
\* the parameters written from token i on, in their order
ParametersWritten(tokens, i) ==
    IF Len(tokens) < i + 2 \/ tokens[i] = ")" THEN << >>
    ELSE << [ mType |-> tokens[i], mIdentifier |-> tokens[i + 1] ] >>
         \o ParametersWritten(tokens, i + 3)

\* C23: processFunctionHeader creates a function exactly for the headers of the form
\* function <type> <name> ( ) or function <type> <name> ( <type> <ident> {, <type>
\* <ident>} ), and the function has the return type, name and parameters of the header
HeaderAcceptedExactlyInForm ==
    gdp.phase = "defined"
        => /\ gdp.g.module.functions /= << >> <=> IsHeaderForm(HeaderLine)
           /\ gdp.g.module.functions /= << >>
                 => /\ gdp.g.module.functions[1].returnType = HeaderLine[2]
                    /\ gdp.g.module.functions[1].name = HeaderLine[3]
                    /\ gdp.g.module.functions[1].parameters = ParametersWritten(HeaderLine, 5)

----------------------------------------------------------------------------
(* Properties of string literals in node building *)

RECURSIVE UndefinedNodesOf(_)
\* the Undefined nodes of the block and of the blocks in it
UndefinedNodesOf(block) ==
    UNION { IF block.nodes[i].type = "UNDEFINED" THEN { block.nodes[i] }
            ELSE IF block.nodes[i].type = "BLOCK" THEN UndefinedNodesOf(block.nodes[i])
            ELSE {} : i \in 1..Len(block.nodes) }

\* the line with every string literal replaced by the constant holding its hash
Hashed(parserTokens) ==
    [ i \in 1..Len(parserTokens) |->
        IF TokenType(parserTokens[i]) = "STRING_LITERAL" THEN StringHash(parserTokens[i])
        ELSE parserTokens[i] ]

\* C24: the string table holds the string literals of exactly the lines processed so
\* far, whatever became of the line, one entry per hash; every Undefined node holds
\* the tokens of its line with each string literal replaced by the constant of its
\* hash, and no string-literal token
StringsInternedAtTheirLine ==
    bld.phase /= "off"
        => /\ bld.state.strings
                = UNION { StringsOf(bld.lines[i]) : i \in 1..bld.state.lineNumber }
           /\ Cardinality({ StringHash(str) : str \in bld.state.strings })
                = Cardinality(bld.state.strings)
           /\ \A node \in UndefinedNodesOf(bld.state.root) :
                 /\ node.tokens = Hashed(bld.lines[node.line])
                 /\ \A i \in 1..Len(node.tokens) :
                       TokenType(node.tokens[i]) /= "STRING_LITERAL"

StringInternedOnRejectedLine ==
    /\ bld.phase = "done"
    /\ bld.lines = << << "'t'", "'t'" >>, << "{", "'s'" >> >>
    /\ bld.state.exc /= << >>
    /\ bld.state.strings = { "'s'", "'t'" }
    /\ bld.state.root.nodes[1].tokens = << "hash:t", "hash:t" >>

----------------------------------------------------------------------------
(* Properties of the flattened line stream *)

RECURSIVE ExpansionFrom(_, _)
\* the depth-first, in-order expansion of the lines of the file from line k on: a line
\* that is no include stands for itself, an include line for the expansion of its file
ExpansionFrom(file, k) ==
    IF k > Len(fs[file]) THEN << >>
    ELSE (IF IsInclude(fs[file][k]) THEN ExpansionFrom(fs[file][k][2], 1)
          ELSE << [ text |-> fs[file][k], file |-> file, k |-> k ] >>)
         \o ExpansionFrom(file, k + 1)

IsPrefix(s, t) == Len(s) <= Len(t) /\ s = SubSeq(t, 1, Len(s))

\* C25: the flattened line stream grows as the depth-first, in-order expansion of the
\* include tree of the loaded file, and is the whole of it when loading is over
OutLinesAreExpansion ==
    loads >= 1
        => /\ IsPrefix(outLines, ExpansionFrom("A", 1))
           /\ pc \in { "compile", "done" } => outLines = ExpansionFrom("A", 1)
           /\ \A i \in 1..Len(outLines) : ~IsInclude(outLines[i].text)

IncludedLinesBeforeLaterLine ==
    /\ pc = "compile"
    /\ fs.A = << LineInclude("B"), LineStatement >>
    /\ fs.B = << LineInclude("C"), LineStatement >>
    /\ fs.C = << LineStatement, LineStatement >>
    /\ [ i \in 1..Len(outLines) |-> << outLines[i].file, outLines[i].k >> ]
           = << << "C", 1 >>, << "C", 2 >>, << "B", 2 >>, << "A", 2 >> >>

----------------------------------------------------------------------------
(* Properties of the scope contexts of functions *)

\* the functions whose body uses a local variable or parameter of another function
UsesForeignLocal(items) ==
    { i \in 1..Len(items) : items[i] \in { "use y", "use p", "use i" } }

\* the flattened line of the body of the function that item i is
BodyLine(items, i) == Len(ItemsLines(SubSeq(items, 1, i - 1))) + 3

\* C26: the function bodies are processed in declaration order, each with a scope
\* context of its own that starts with exactly the parameters of the function: a body
\* resolves its parameters, and the first body in the file that names a local variable
\* or parameter of another function fails to resolve it, also when that function left
\* a scope open
FunctionsHaveTheirOwnScopeContext ==
    gdp.phase = "compiled"
        => /\ \A k \in 1..Len(gdp.c.module.functions) :
                 ScopeContextOf(gdp.c.module.functions[k])
                     = [ mLocalVariables |-> gdp.c.module.functions[k].parameters,
                         mScopeStack |-> << >> ]
           /\ IF UsesForeignLocal(gdp.items) = {}
              THEN gdp.c.success
              ELSE /\ ~gdp.c.success
                   /\ gdp.c.exc = Exception("Unable to resolve identifier",
                                            BodyLine(gdp.items,
                                                     FirstOf(UsesForeignLocal(gdp.items))))

LocalsOfEarlierFunctionsNotVisible ==
    /\ gdp.phase = "compiled"
    /\ gdp.items = << "k", "open i", "use i" >>
    /\ gdp.c.exc = Exception("Unable to resolve identifier", 14)

----------------------------------------------------------------------------
(* Properties of the block stack in node building *)

\* the number of lines among the first n that are the one token
BraceLines(token, n) == Cardinality({ i \in 1..n : bld.lines[i] = << token >> })

\* the depth of the block stack after the first n lines, counted from the lines
DepthAfter(n) == 1 + BraceLines("{", n) - BraceLines("}", n)

RECURSIVE Preorder(_, _)
\* the nodes of the block and of the blocks in it, in the order of their lines, each
\* with its line, its type and the number of blocks around it below the root
Preorder(block, depth) ==
    IF block.nodes = << >> THEN << >>
    ELSE Preorder([ block EXCEPT !.nodes = Front(@) ], depth)
         \o << [ line |-> Last(block.nodes).line, type |-> Last(block.nodes).type,
                 depth |-> depth ] >>
         \o (IF Last(block.nodes).type = "BLOCK"
             THEN Preorder(Last(block.nodes), depth + 1) ELSE << >>)

RECURSIVE NodesOfLines(_)
\* the nodes the first n lines stand for: none for a blank line and for a closing
\* brace, and each other line a node in the innermost block open at that line
NodesOfLines(n) ==
    IF n = 0 THEN << >>
    ELSE NodesOfLines(n - 1)
         \o (IF bld.lines[n] \in { << >>, << "}" >> } THEN << >>
             ELSE << [ line |-> n,
                       type |-> IF bld.lines[n] = << "{" >> THEN "BLOCK" ELSE "UNDEFINED",
                       depth |-> DepthAfter(n - 1) - 1 ] >>)

\* C27: in node building the depth of the block stack is 1 + the opening - the closing
\* brace lines seen, its bottom is the root block, it is not empty while lines are
\* processed, and the nodes are those of the lines seen, each in the innermost block open
\* at its line and with the 1-based number of its line
BlockStackFollowsBraces ==
    bld.phase /= "off"
        => /\ Len(bld.state.blockStack) = DepthAfter(bld.state.lineNumber)
           /\ bld.state.blockStack /= << >> => bld.state.blockStack[1] = << >>
           /\ bld.state.exc = << >> => bld.state.blockStack /= << >>
           /\ Preorder(bld.state.root, 0) = NodesOfLines(bld.state.lineNumber)

NodeInInnermostBlockAfterBlankLine ==
    /\ bld.phase = "done"
    /\ bld.lines = << << "{" >>, << >>, << "x" >>, << "}" >>, << "x" >> >>
    /\ bld.state.root.nodes[1].nodes[1].line = 3
    /\ bld.state.root.nodes[2].line = 5

----------------------------------------------------------------------------
(* Properties of the list of function nodes *)

\* the root block of a load is a local variable of its compileLines call: it is
\* destroyed when an earlier load compiled it, or this load's compileLines has returned
RootDestroyed(load) == load < loads \/ (load = loads /\ pc = "done")

\* C28: once compileLines has returned, with success or with failure, the list of
\* function nodes holds no entry of a root block that is destroyed, so that the next
\* compileLines processes the function nodes of its own input only
NoFunctionNodeOfDestroyedRoot ==
    \A i \in 1..Len(mFunctionNodes) : ~RootDestroyed(mFunctionNodes[i].load)

----------------------------------------------------------------------------
(* Properties of else lines without braces *)

\* the nodes held by a node: the nodes of a block, the body of a loop, the
\* then-body and the else-body of an if
ChildrenOf(node) == node.nodes \o node.content \o node.contentIf \o node.contentElse

\* the if nodes of a node list, at every depth
RECURSIVE IfNodesOf(_)
IfNodesOf(nodes) ==
    UNION { (IF nodes[j].type = "IF_STATEMENT" THEN { nodes[j] } ELSE { })
              \cup IfNodesOf(ChildrenOf(nodes[j])) : j \in 1..Len(nodes) }

\* the last line a node covers
RECURSIVE LastLine(_)
LastLine(node) ==
    LET below == { LastLine(ChildrenOf(node)[j]) : j \in 1..Len(ChildrenOf(node)) }
    IN  CHOOSE l \in below \cup { node.line } : \A m \in below \cup { node.line } : m <= l

\* the line of the else an if node has taken: the line before its else-body, or
\* the line of the else-body when the else and the body share a line
ElseLine(items, n) ==
    IF items[n.contentElse[1].line] = "else for"
    THEN n.contentElse[1].line
    ELSE n.contentElse[1].line - 1

ElseBindsInnermost(items, ifNodes) ==
    /\ \A n \in ifNodes :
          n.contentElse /= << >>
            => /\ items[ElseLine(items, n)] \in { "else", "else for" }
               /\ LastLine(n.contentIf[1]) = ElseLine(items, n) - 1
               /\ \A m \in ifNodes :
                     LastLine(m.contentIf[1]) = ElseLine(items, n) - 1 => m.line <= n.line
    /\ \A e \in 1..Len(items) :
          items[e] \in { "else", "else for" }
            => \E n \in ifNodes : n.contentElse /= << >> /\ ElseLine(items, n) = e

\* C29: in a block shaped without error, every else is held by the innermost if whose
\* then-body ends on the line before it; so if A, if B, S1, else, S2 gives one node,
\* the if A without else, whose then-body is the if B with then S1 and else S2
ElseBindsToInnermostIf ==
    (shp.phase = "done" /\ shp.exc = << >>)
        => /\ ElseBindsInnermost(shp.items, IfNodesOf(shp.block.nodes))
           /\ shp.items = << "if", "if", "statement", "else", "statement" >>
                => /\ Len(shp.block.nodes) = 1
                   /\ shp.block.nodes[1].line = 1
                   /\ shp.block.nodes[1].contentElse = << >>
                   /\ shp.block.nodes[1].contentIf[1].type = "IF_STATEMENT"
                   /\ shp.block.nodes[1].contentIf[1].line = 2
                   /\ shp.block.nodes[1].contentIf[1].contentIf[1].line = 3
                   /\ shp.block.nodes[1].contentIf[1].contentElse[1].line = 5

DanglingElseShaped ==
    /\ shp.phase = "done"
    /\ shp.exc = << >>
    /\ shp.items = << "if", "if", "statement", "else", "statement" >>
    /\ shp.block.nodes[1].type = "IF_STATEMENT"
    /\ shp.block.nodes[1].contentIf[1].contentElse /= << >>

====
